---------------------------- MODULE Spec2Model ----------------------------
(***************************************************************************)
(* CPU scheduling simulator (queue.c, priority_queue.c, simulator.c).      *)
(*                                                                         *)
(* A process pointer (ProcessPtr_t) is modelled by the pid of the process  *)
(* it points to; the process records live in the table proc.  A binary     *)
(* tree of TreeNode_t is a function from node positions to process         *)
(* pointers: the root is position 1, the left child of w is 2*w, the right *)
(* child is 2*w+1, and a position outside the domain is a NULL link.  A    *)
(* singly linked list of ListNode_t is the sequence of its process         *)
(* pointers from front to rear.                                            *)
(***************************************************************************)
EXTENDS Integers, Sequences, FiniteSets, TLC

---------------------------------------------------------------------------
(* Bounds of the model *)

\* largest number of generated processes (N read by main)
MaxProc == 2
\* largest generated cpu_burst_time
MaxCpu == 3
\* largest generated io_burst_time
MaxIo == 2
\* largest generated arrival_time
MaxArr == 1
\* priorities are generated in -MaxPrio .. 0
MaxPrio == 1
\* number of processes of the queue test bench
BenchProcs == 5
\* the key fields of the test bench processes are drawn from 0 .. MaxKey
MaxKey == 1
\* largest number of Queue_Enqueue calls of the test bench
MaxEnq == 4

\* No run of N >= 1 processes needs more ticks than this (the loop of an
\* empty workload never ends and is cut here).  10 is TIME_QUANTUM.
MaxTick == MaxProc * (10 + 1 + MaxCpu + MaxIo) + MaxArr + 2

---------------------------------------------------------------------------
(* Program constants *)

NULL == 0

FCFS == 1
NON_PREEMPTIVE_SJF == 2
PREEMPTIVE_SJF == 3
NON_PREEMPTIVE_PRIORITY == 4
PREEMPTIVE_PRIORITY == 5
ROUND_ROBIN == 6

TIME_QUANTUM == 10

\* time_len_t is unsigned int: 0 - 1 wraps to UINT_MAX.  TLC's integers are
\* 32 bit signed, so its largest integer stands for UINT_MAX.
UINT_MAX == 2147483647

\* x-- on a time_len_t
Decrement(x) == IF x = 0 THEN UINT_MAX ELSE x - 1

---------------------------------------------------------------------------
(* priority_queue.c: the comparators.  a and b are Process_t records. *)
\* SJF_Compare ordering by pid alone
SJF_Compare_PidOnly(a, b) == IF a.pid < b.pid THEN 1 ELSE 0

SJF_Compare(a, b) ==
    IF a.cpu_burst_time # b.cpu_burst_time
    THEN (IF a.cpu_burst_time < b.cpu_burst_time THEN 1 ELSE 0)
    ELSE (IF a.pid < b.pid THEN 1 ELSE 0)
\* Priority_Compare without the pid tie-break
Priority_Compare_NoTie(a, b) == IF a.priority < b.priority THEN 1 ELSE 0

Priority_Compare(a, b) ==
    IF a.priority # b.priority
    THEN (IF a.priority < b.priority THEN 1 ELSE 0)
    ELSE (IF a.pid < b.pid THEN 1 ELSE 0)
\* IO_Burst_Compare without the pid tie-break
IO_Burst_Compare_NoTie(a, b) ==
    IF a.io_burst_time < b.io_burst_time THEN 1 ELSE 0

IO_Burst_Compare(a, b) ==
    IF a.io_burst_time # b.io_burst_time
    THEN (IF a.io_burst_time < b.io_burst_time THEN 1 ELSE 0)
    ELSE (IF a.pid < b.pid THEN 1 ELSE 0)

Simulator_ArrivalTime_Compare(a, b) ==
    IF a.arrival_time # b.arrival_time
    THEN (IF a.arrival_time < b.arrival_time THEN 1 ELSE 0)
    ELSE (IF a.pid < b.pid THEN 1 ELSE 0)

Comparators ==
    {"SJF_Compare", "Priority_Compare", "IO_Burst_Compare",
     "Simulator_ArrivalTime_Compare"}

\* queue->compare(a, b): the call through the function pointer cmp, on the
\* processes that the pointers a and b address in the table P
Compare(cmp, P, a, b) ==
    CASE cmp = "SJF_Compare" -> SJF_Compare(P[a], P[b]) # 0
      [] cmp = "Priority_Compare" -> Priority_Compare(P[a], P[b]) # 0
      [] cmp = "IO_Burst_Compare" -> IO_Burst_Compare(P[a], P[b]) # 0
      [] cmp = "Simulator_ArrivalTime_Compare" ->
             Simulator_ArrivalTime_Compare(P[a], P[b]) # 0

---------------------------------------------------------------------------
(* priority_queue.c: the heap *)

Left(w) == 2 * w
Right(w) == 2 * w + 1
Parent(w) == w \div 2

\* pos & count, for pos a power of two
BitAnd(pos, count) == (count \div pos) % 2 = 1

\* for (pos = 2; !(pos <= count && count < (pos << 1)); pos = pos << 1);
RECURSIVE TopBit(_, _)
TopBit(pos, count) ==
    IF pos <= count /\ count < 2 * pos THEN pos ELSE TopBit(2 * pos, count)

\* while (pos >= 2) { walker = (pos & count) ? right : left; pos >>= 1; }
RECURSIVE Walk(_, _, _)
Walk(walker, pos, count) ==
    IF pos >= 2
    THEN Walk(IF BitAnd(pos, count) THEN Right(walker) ELSE Left(walker),
              pos \div 2, count)
    ELSE walker

\* The link of the last tree position for a heap of count nodes: the walk
\* from the top, then the branch on the lowest bit of count.
LastSlot(count) ==
    LET walker == Walk(1, TopBit(2, count) \div 2, count)
    IN  IF BitAnd(1, count) THEN Right(walker) ELSE Left(walker)

\* SWAP(a, b) on the process_ptr of two nodes
Swap(tree, a, b) == [tree EXCEPT ![a] = tree[b], ![b] = tree[a]]

Priority_Init(cmp) == [count |-> 0, tree |-> <<>>, compare |-> cmp]

\* the heap adjustment loop of Priority_Enqueue
RECURSIVE SiftUp(_, _, _, _)
SiftUp(tree, walker, cmp, P) ==
    IF walker # 1
    THEN IF Compare(cmp, P, tree[walker], tree[Parent(walker)])
         THEN SiftUp(Swap(tree, walker, Parent(walker)), Parent(walker), cmp, P)
         ELSE tree
    ELSE tree

Priority_Enqueue(queue, P, process) ==
    IF queue.count = 0
    THEN [queue EXCEPT !.count = 1, !.tree = (1 :> process)]
    ELSE LET count == queue.count + 1
             new == LastSlot(count)
             linked == [w \in DOMAIN queue.tree \cup {new} |->
                          IF w = new THEN process ELSE queue.tree[w]]
         IN  [queue EXCEPT !.count = count,
                           !.tree = SiftUp(linked, new, queue.compare, P)]

\* SiftDown descending into the left child without comparing the children
RECURSIVE SiftDown_LeftOnly(_, _, _, _)
SiftDown_LeftOnly(tree, walker, cmp, P) ==
    IF Left(walker) \notin DOMAIN tree /\ Right(walker) \notin DOMAIN tree
    THEN tree
    ELSE LET child == Left(walker)
         IN  IF Compare(cmp, P, tree[child], tree[walker])
             THEN SiftDown_LeftOnly(Swap(tree, child, walker), child, cmp, P)
             ELSE tree

\* the heap adjustment loop of Priority_Dequeue
RECURSIVE SiftDown(_, _, _, _)
SiftDown(tree, walker, cmp, P) ==
    IF Left(walker) \notin DOMAIN tree /\ Right(walker) \notin DOMAIN tree
    THEN tree
    ELSE LET child ==
                 IF Right(walker) \in DOMAIN tree
                 THEN IF Compare(cmp, P, tree[Left(walker)], tree[Right(walker)])
                      THEN Left(walker)
                      ELSE Right(walker)
                 ELSE Left(walker)
         IN  IF Compare(cmp, P, tree[child], tree[walker])
             THEN SiftDown(Swap(tree, child, walker), child, cmp, P)
             ELSE tree

\* Priority_Dequeue freeing the last node without moving its process to the top
Priority_Dequeue_DropLast(queue, P) ==
    IF queue.count = 0
    THEN [queue |-> queue, ret |-> 0]
    ELSE IF queue.count = 1
    THEN [queue |-> [queue EXCEPT !.count = 0, !.tree = <<>>], ret |-> 1]
    ELSE LET last == LastSlot(queue.count)
             cut == [w \in DOMAIN queue.tree \ {last} |-> queue.tree[w]]
         IN  [queue |-> [queue EXCEPT !.count = queue.count - 1, !.tree = cut],
              ret |-> 1]

\* [queue |-> the queue after the call, ret |-> the value returned]
Priority_Dequeue(queue, P) ==
    IF queue.count = 0
    THEN [queue |-> queue, ret |-> 0]
    ELSE IF queue.count = 1
    THEN [queue |-> [queue EXCEPT !.count = 0, !.tree = <<>>], ret |-> 1]
    ELSE LET last == LastSlot(queue.count)
             cut == [w \in DOMAIN queue.tree \ {last} |->
                       IF w = 1 THEN queue.tree[last] ELSE queue.tree[w]]
         IN  [queue |-> [queue EXCEPT
                           !.count = queue.count - 1,
                           !.tree = SiftDown(cut, 1, queue.compare, P)],
              ret |-> 1]

Priority_Top(queue) == IF queue.count = 0 THEN NULL ELSE queue.tree[1]

Priority_IsEmpty(queue) == queue.count = 0

---------------------------------------------------------------------------
(* queue.c: the FIFO queue.  front is the head of list, rear its last      *)
(* element; both are NULL exactly when list is empty.                      *)

Queue_Init == [count |-> 0, list |-> <<>>]

\* Queue_Enqueue linking the new node before front instead of after rear
Queue_Enqueue_AtFront(queue, process) ==
    [count |-> queue.count + 1, list |-> <<process>> \o queue.list]

Queue_Enqueue(queue, process) ==
    [count |-> queue.count + 1, list |-> Append(queue.list, process)]

\* Queue_Dequeue without the test of count
Queue_Dequeue_NoGuard(queue) ==
    [queue |-> [count |-> queue.count - 1,
                list |-> IF queue.list = <<>> THEN <<>> ELSE Tail(queue.list)],
     ret |-> 1]

\* [queue |-> the queue after the call, ret |-> the value returned]
Queue_Dequeue(queue) ==
    IF queue.count = 0
    THEN [queue |-> queue, ret |-> 0]
    ELSE [queue |-> [count |-> queue.count - 1, list |-> Tail(queue.list)],
          ret |-> 1]

Queue_Front(queue) == IF queue.count = 0 THEN NULL ELSE Head(queue.list)

Queue_IsEmpty(queue) == queue.count = 0

---------------------------------------------------------------------------
(* The state *)

VARIABLES
    \* Simulator_t
    num_process, generated_processes, terminated_processes, flag,
    cur_cpu_burst, ready_queue, waiting_queue, elapsed_time, idle_time,
    avg_waiting_time, avg_turnaround_time, max_waiting_time,
    \* the Process_t records, by pid
    proc,
    \* the table of generated processes printed by Simulator_GenerateProcess
    workload,
    \* time_quantum of Simulator_RoundRobin
    time_quantum,
    \* CPU_utilization printed by Simulator_Eval
    CPU_utilization,
    \* the statement of the scheduling loop that runs next
    pc,
    \* history: the processes whose waiting_time Simulator_Queue_Waiting or
    \* Simulator_Priority_Waiting incremented in the current iteration
    aged,
    \* history: whether the ready queue held a process, and what
    \* cur_cpu_burst was, when Simulator_LoadProcess or
    \* Simulator_LoadProcess_Priority was called in the current iteration
    ready_at_dispatch, slot_at_dispatch,
    \* the queue test bench: the queue, the last call and its result, and
    \* the processes enqueued and observed at the front before each dequeue
    bench_queue, bench_op, bench_ret, enq_log, deq_log

simvars ==
    <<num_process, generated_processes, terminated_processes, flag,
      cur_cpu_burst, ready_queue, waiting_queue, elapsed_time, idle_time,
      avg_waiting_time, avg_turnaround_time, max_waiting_time, workload,
      time_quantum, CPU_utilization, pc, aged, ready_at_dispatch,
      slot_at_dispatch>>

benchvars == <<bench_queue, bench_op, bench_ret, enq_log, deq_log>>

vars == <<simvars, proc, benchvars>>

---------------------------------------------------------------------------
(* Values of type double *)

Number(n) == [kind |-> "number", num |-> n, den |-> 1]

\* a double never assigned
NoValue == [kind |-> "none", num |-> 0, den |-> 1]

\* (double) num / den as IEEE 754 evaluates it: x / 0 is inf, 0 / 0 is nan
Divide(num, den) ==
    IF den # 0 THEN [kind |-> "number", num |-> num, den |-> den]
    ELSE IF num # 0 THEN [kind |-> "inf", num |-> num, den |-> 0]
    ELSE [kind |-> "nan", num |-> 0, den |-> 0]

---------------------------------------------------------------------------
(* simulator.c: construction and the generated workload *)

FifoPolicy(f) == f \in {FCFS, ROUND_ROBIN}

\* the ready queue that Simulator_Init allocates for a flag
Simulator_Init_ReadyQueue(f) ==
    CASE f \in {FCFS, ROUND_ROBIN} -> Queue_Init
      [] f \in {NON_PREEMPTIVE_SJF, PREEMPTIVE_SJF} -> Priority_Init("SJF_Compare")
      [] f \in {NON_PREEMPTIVE_PRIORITY, PREEMPTIVE_PRIORITY} ->
             Priority_Init("Priority_Compare")

\* arrival_time = rand() % (N * 3)
ArrivalTimes(N) == {a \in 0 .. MaxArr : a < N * 3}

\* The descriptors the generator may draw: short processes of every shape and
\* a CPU-bound process that outlasts the time quantum.
Descriptors(N) ==
    [cpu_burst_time : 1 .. MaxCpu, io_burst_time : 0 .. MaxIo,
     arrival_time : ArrivalTimes(N), priority : (0 - MaxPrio) .. 0]
    \cup
    [cpu_burst_time : {TIME_QUANTUM + 1}, io_burst_time : {0},
     arrival_time : {0}, priority : {0}]

\* new->... = ...: the record of process pid cloned from descriptor d
NewProcess(pid, d) ==
    [pid |-> pid, cpu_burst_time |-> d.cpu_burst_time,
     io_burst_time |-> d.io_burst_time, arrival_time |-> d.arrival_time,
     priority |-> d.priority, waiting_time |-> 0, turnaround_time |-> 0]

\* the job queue after Priority_Enqueue of the processes i .. N in pid order
RECURSIVE Simulator_GenerateProcess(_, _, _, _)
Simulator_GenerateProcess(queue, P, i, N) ==
    IF i > N THEN queue
    ELSE Simulator_GenerateProcess(Priority_Enqueue(queue, P, i), P, i + 1, N)

BenchIdle ==
    /\ bench_queue = Queue_Init
    /\ bench_op = "none"
    /\ bench_ret = 0
    /\ enq_log = <<>>
    /\ deq_log = <<>>

\* The state after the six Simulator_Init calls and Simulator_GenerateProcess
\* of main, seen from one of the six simulators.
Init ==
    \E f \in FCFS .. ROUND_ROBIN, N \in 0 .. MaxProc :
      \E d \in [1 .. N -> Descriptors(N)] :
        LET P == [pid \in 1 .. N |-> NewProcess(pid, d[pid])]
        IN  /\ flag = f
            /\ num_process = N
            /\ proc = P
            /\ workload = P
            /\ generated_processes =
                 Simulator_GenerateProcess(
                     Priority_Init("Simulator_ArrivalTime_Compare"), P, 1, N)
            /\ terminated_processes = Priority_Init("Simulator_ArrivalTime_Compare")
            /\ waiting_queue = Priority_Init("IO_Burst_Compare")
            /\ ready_queue = Simulator_Init_ReadyQueue(f)
            /\ cur_cpu_burst = NULL
            /\ elapsed_time = 0
            /\ idle_time = 0
            /\ avg_waiting_time = Number(0)
            /\ avg_turnaround_time = Number(0)
            /\ max_waiting_time = 0
            /\ time_quantum = 0
            /\ CPU_utilization = NoValue
            /\ pc = "LoadReadyQueue"
            /\ aged = {}
            /\ ready_at_dispatch = FALSE
            /\ slot_at_dispatch = NULL
            /\ BenchIdle

---------------------------------------------------------------------------
(* simulator.c: the steps of a tick *)

\* the nodes a recursive traversal from node w visits
RECURSIVE Nodes(_, _)
Nodes(tree, w) ==
    IF w \notin DOMAIN tree THEN {}
    ELSE Nodes(tree, Left(w)) \cup {w} \cup Nodes(tree, Right(w))

\* how many nodes of the tree point to process p
TreeVisits(tree, p) == Cardinality({w \in Nodes(tree, 1) : tree[w] = p})

\* how many nodes of the list point to process p
ListVisits(list, p) == Cardinality({i \in 1 .. Len(list) : list[i] = p})

\* LoadArrived testing the arrival time against the tick after this one
RECURSIVE LoadArrived_Late(_, _, _, _)
LoadArrived_Late(ready, job, P, now) ==
    IF ~Priority_IsEmpty(job) /\ P[Priority_Top(job)].arrival_time = now + 1
    THEN LoadArrived_Late(Queue_Enqueue(ready, Priority_Top(job)),
                          Priority_Dequeue(job, P).queue, P, now)
    ELSE [ready |-> ready, job |-> job]

\* first loop of Simulator_LoadReadyQueue: the arrived jobs
RECURSIVE LoadArrived(_, _, _, _)
LoadArrived(ready, job, P, now) ==
    IF ~Priority_IsEmpty(job) /\ P[Priority_Top(job)].arrival_time = now
    THEN LoadArrived(Queue_Enqueue(ready, Priority_Top(job)),
                     Priority_Dequeue(job, P).queue, P, now)
    ELSE [ready |-> ready, job |-> job]
\* the second loop of Simulator_LoadReadyQueue as an if: one process at most
LoadCompleted_Once(ready, waiting, P) ==
    IF ~Priority_IsEmpty(waiting) /\ P[Priority_Top(waiting)].io_burst_time = 0
    THEN [ready |-> Queue_Enqueue(ready, Priority_Top(waiting)),
          waiting |-> Priority_Dequeue(waiting, P).queue]
    ELSE [ready |-> ready, waiting |-> waiting]

\* second loop of Simulator_LoadReadyQueue: the completed I/O
RECURSIVE LoadCompleted(_, _, _)
LoadCompleted(ready, waiting, P) ==
    IF ~Priority_IsEmpty(waiting) /\ P[Priority_Top(waiting)].io_burst_time = 0
    THEN LoadCompleted(Queue_Enqueue(ready, Priority_Top(waiting)),
                       Priority_Dequeue(waiting, P).queue, P)
    ELSE [ready |-> ready, waiting |-> waiting]

Simulator_LoadReadyQueue ==
    LET a == LoadArrived(ready_queue, generated_processes, proc, elapsed_time)
        c == LoadCompleted(a.ready, waiting_queue, proc)
    IN  /\ generated_processes' = a.job
        /\ waiting_queue' = c.waiting
        /\ ready_queue' = c.ready
        /\ UNCHANGED <<proc, cur_cpu_burst, terminated_processes, idle_time,
                       time_quantum, avg_waiting_time, avg_turnaround_time,
                       max_waiting_time, CPU_utilization>>

\* first loop of Simulator_LoadReadyQueue_Priority
RECURSIVE LoadArrived_Priority(_, _, _, _)
LoadArrived_Priority(ready, job, P, now) ==
    IF ~Priority_IsEmpty(job) /\ P[Priority_Top(job)].arrival_time = now
    THEN LoadArrived_Priority(Priority_Enqueue(ready, P, Priority_Top(job)),
                              Priority_Dequeue(job, P).queue, P, now)
    ELSE [ready |-> ready, job |-> job]
\* the second loop of Simulator_LoadReadyQueue_Priority as an if: one
\* completed process at most
LoadCompleted_Priority_Once(ready, waiting, P) ==
    IF ~Priority_IsEmpty(waiting) /\ P[Priority_Top(waiting)].io_burst_time = 0
    THEN [ready |-> Priority_Enqueue(ready, P, Priority_Top(waiting)),
          waiting |-> Priority_Dequeue(waiting, P).queue]
    ELSE [ready |-> ready, waiting |-> waiting]

\* second loop of Simulator_LoadReadyQueue_Priority
RECURSIVE LoadCompleted_Priority(_, _, _)
LoadCompleted_Priority(ready, waiting, P) ==
    IF ~Priority_IsEmpty(waiting) /\ P[Priority_Top(waiting)].io_burst_time = 0
    THEN LoadCompleted_Priority(Priority_Enqueue(ready, P, Priority_Top(waiting)),
                                Priority_Dequeue(waiting, P).queue, P)
    ELSE [ready |-> ready, waiting |-> waiting]

Simulator_LoadReadyQueue_Priority ==
    LET a == LoadArrived_Priority(ready_queue, generated_processes, proc,
                                  elapsed_time)
        c == LoadCompleted_Priority(a.ready, waiting_queue, proc)
    IN  /\ generated_processes' = a.job
        /\ waiting_queue' = c.waiting
        /\ ready_queue' = c.ready
        /\ UNCHANGED <<proc, cur_cpu_burst, terminated_processes, idle_time,
                       time_quantum, avg_waiting_time, avg_turnaround_time,
                       max_waiting_time, CPU_utilization>>
Simulator_LoadProcess ==
    /\ IF cur_cpu_burst = NULL /\ ~Queue_IsEmpty(ready_queue)
       THEN /\ cur_cpu_burst' = Queue_Front(ready_queue)
            /\ ready_queue' = Queue_Dequeue(ready_queue).queue
       ELSE UNCHANGED <<cur_cpu_burst, ready_queue>>
    /\ UNCHANGED <<proc, generated_processes, waiting_queue,
                   terminated_processes, idle_time, time_quantum,
                   avg_waiting_time, avg_turnaround_time, max_waiting_time,
                   CPU_utilization>>

\* what Simulator_LoadProcess_Priority leaves in the CPU and the ready queue
LoadProcess_Priority(cur, ready, P) ==
    IF cur = NULL /\ ~Priority_IsEmpty(ready)
    THEN [cur |-> Priority_Top(ready), ready |-> Priority_Dequeue(ready, P).queue]
    ELSE [cur |-> cur, ready |-> ready]
\* Simulator_LoadProcess_Priority replacing the running process when the
\* top of ready compares ahead of it
Simulator_LoadProcess_Priority_Preempting ==
    LET l == IF /\ cur_cpu_burst # NULL
                /\ ~Priority_IsEmpty(ready_queue)
                /\ Compare(ready_queue.compare, proc, ready_queue.tree[1],
                           cur_cpu_burst)
             THEN LoadProcess_Priority(
                      NULL, Priority_Enqueue(ready_queue, proc, cur_cpu_burst),
                      proc)
             ELSE LoadProcess_Priority(cur_cpu_burst, ready_queue, proc)
    IN  /\ cur_cpu_burst' = l.cur
        /\ ready_queue' = l.ready
        /\ UNCHANGED <<proc, generated_processes, waiting_queue,
                       terminated_processes, idle_time, time_quantum,
                       avg_waiting_time, avg_turnaround_time, max_waiting_time,
                       CPU_utilization>>

Simulator_LoadProcess_Priority ==
    LET l == LoadProcess_Priority(cur_cpu_burst, ready_queue, proc)
    IN  /\ cur_cpu_burst' = l.cur
        /\ ready_queue' = l.ready
        /\ UNCHANGED <<proc, generated_processes, waiting_queue,
                       terminated_processes, idle_time, time_quantum,
                       avg_waiting_time, avg_turnaround_time, max_waiting_time,
                       CPU_utilization>>
\* Simulator_Queue_Waiting without turnaround_time++
Simulator_Queue_Waiting_NoTurnaround ==
    /\ proc' = [p \in DOMAIN proc |->
                  LET n == ListVisits(ready_queue.list, p)
                  IN  [proc[p] EXCEPT !.waiting_time = @ + n]]
    /\ aged' = {p \in DOMAIN proc :
                  proc'[p].waiting_time # proc[p].waiting_time}
    /\ UNCHANGED <<cur_cpu_burst, ready_queue, generated_processes,
                   waiting_queue, terminated_processes, idle_time,
                   time_quantum, avg_waiting_time, avg_turnaround_time,
                   max_waiting_time, CPU_utilization>>

Simulator_Queue_Waiting ==
    /\ proc' = [p \in DOMAIN proc |->
                  LET n == ListVisits(ready_queue.list, p)
                  IN  [proc[p] EXCEPT !.waiting_time = @ + n,
                                      !.turnaround_time = @ + n]]
    /\ aged' = {p \in DOMAIN proc :
                  proc'[p].waiting_time # proc[p].waiting_time}
    /\ UNCHANGED <<cur_cpu_burst, ready_queue, generated_processes,
                   waiting_queue, terminated_processes, idle_time,
                   time_quantum, avg_waiting_time, avg_turnaround_time,
                   max_waiting_time, CPU_utilization>>
\* Simulator_Priority_Waiting raising the priority of the processes it ages
Simulator_Priority_Waiting_Aging ==
    /\ proc' = [p \in DOMAIN proc |->
                  LET n == TreeVisits(ready_queue.tree, p)
                  IN  [proc[p] EXCEPT !.waiting_time = @ + n,
                                      !.turnaround_time = @ + n,
                                      !.priority = @ - n]]
    /\ aged' = {p \in DOMAIN proc :
                  proc'[p].waiting_time # proc[p].waiting_time}
    /\ UNCHANGED <<cur_cpu_burst, ready_queue, generated_processes,
                   waiting_queue, terminated_processes, idle_time,
                   time_quantum, avg_waiting_time, avg_turnaround_time,
                   max_waiting_time, CPU_utilization>>

\* Simulator_Priority_Waiting walking the terminated heap as well
Simulator_Priority_Waiting_Terminated ==
    /\ proc' = [p \in DOMAIN proc |->
                  LET n == TreeVisits(ready_queue.tree, p)
                           + TreeVisits(terminated_processes.tree, p)
                  IN  [proc[p] EXCEPT !.waiting_time = @ + n,
                                      !.turnaround_time = @ + n]]
    /\ aged' = {p \in DOMAIN proc :
                  proc'[p].waiting_time # proc[p].waiting_time}
    /\ UNCHANGED <<cur_cpu_burst, ready_queue, generated_processes,
                   waiting_queue, terminated_processes, idle_time,
                   time_quantum, avg_waiting_time, avg_turnaround_time,
                   max_waiting_time, CPU_utilization>>

Simulator_Priority_Waiting ==
    /\ proc' = [p \in DOMAIN proc |->
                  LET n == TreeVisits(ready_queue.tree, p)
                  IN  [proc[p] EXCEPT !.waiting_time = @ + n,
                                      !.turnaround_time = @ + n]]
    /\ aged' = {p \in DOMAIN proc :
                  proc'[p].waiting_time # proc[p].waiting_time}
    /\ UNCHANGED <<cur_cpu_burst, ready_queue, generated_processes,
                   waiting_queue, terminated_processes, idle_time,
                   time_quantum, avg_waiting_time, avg_turnaround_time,
                   max_waiting_time, CPU_utilization>>

\* io_burst_time-- once for each of n nodes
RECURSIVE DecrementBy(_, _)
DecrementBy(x, n) == IF n = 0 THEN x ELSE DecrementBy(Decrement(x), n - 1)
\* Simulator_Process_IO starting its walk at the children of the root
Simulator_Process_IO_SkipRoot ==
    /\ proc' = [p \in DOMAIN proc |->
                  LET n == TreeVisits(waiting_queue.tree, p)
                           - (IF waiting_queue.count > 0
                                 /\ waiting_queue.tree[1] = p
                              THEN 1 ELSE 0)
                  IN  [proc[p] EXCEPT
                         !.io_burst_time = DecrementBy(@, n),
                         !.turnaround_time = @ + n]]
    /\ UNCHANGED <<cur_cpu_burst, ready_queue, generated_processes,
                   waiting_queue, terminated_processes, idle_time,
                   time_quantum, avg_waiting_time, avg_turnaround_time,
                   max_waiting_time, CPU_utilization>>

\* Simulator_Process_IO without io_burst_time--
Simulator_Process_IO_NoDecrement ==
    /\ proc' = [p \in DOMAIN proc |->
                  LET n == TreeVisits(waiting_queue.tree, p)
                  IN  [proc[p] EXCEPT !.turnaround_time = @ + n]]
    /\ UNCHANGED <<cur_cpu_burst, ready_queue, generated_processes,
                   waiting_queue, terminated_processes, idle_time,
                   time_quantum, avg_waiting_time, avg_turnaround_time,
                   max_waiting_time, CPU_utilization>>

Simulator_Process_IO ==
    /\ proc' = [p \in DOMAIN proc |->
                  LET n == TreeVisits(waiting_queue.tree, p)
                  IN  [proc[p] EXCEPT
                         !.io_burst_time = DecrementBy(@, n),
                         !.turnaround_time = @ + n]]
    /\ UNCHANGED <<cur_cpu_burst, ready_queue, generated_processes,
                   waiting_queue, terminated_processes, idle_time,
                   time_quantum, avg_waiting_time, avg_turnaround_time,
                   max_waiting_time, CPU_utilization>>
\* InterruptQueue releasing a process whatever its cpu_burst_time
RECURSIVE InterruptQueue_AnyCpu(_, _, _, _, _)
InterruptQueue_AnyCpu(waiting, ready, tmp, P, prob) ==
    LET top_process == Priority_Top(waiting)
    IN  IF top_process = NULL THEN [ready |-> ready, waiting |-> tmp]
        ELSE IF prob[top_process]
        THEN InterruptQueue_AnyCpu(Priority_Dequeue(waiting, P).queue,
                                   Queue_Enqueue(ready, top_process), tmp, P,
                                   prob)
        ELSE InterruptQueue_AnyCpu(Priority_Dequeue(waiting, P).queue, ready,
                                   Priority_Enqueue(tmp, P, top_process), P,
                                   prob)

\* InterruptQueue freeing the node of a process that stays in I/O without
\* enqueueing the process in tmp
RECURSIVE InterruptQueue_Drop(_, _, _, _, _)
InterruptQueue_Drop(waiting, ready, tmp, P, prob) ==
    LET top_process == Priority_Top(waiting)
    IN  IF top_process = NULL THEN [ready |-> ready, waiting |-> tmp]
        ELSE IF prob[top_process] /\ P[top_process].cpu_burst_time > 1
        THEN InterruptQueue_Drop(Priority_Dequeue(waiting, P).queue,
                                 Queue_Enqueue(ready, top_process), tmp, P, prob)
        ELSE InterruptQueue_Drop(Priority_Dequeue(waiting, P).queue, ready,
                                 tmp, P, prob)

\* the while loop of Simulator_Process_IO_Queue; prob[p] is what
\* Simulator_Probability returns in the iteration that takes p
RECURSIVE InterruptQueue(_, _, _, _, _)
InterruptQueue(waiting, ready, tmp, P, prob) ==
    LET top_process == Priority_Top(waiting)
    IN  IF top_process = NULL THEN [ready |-> ready, waiting |-> tmp]
        ELSE IF prob[top_process] /\ P[top_process].cpu_burst_time > 1
        THEN InterruptQueue(Priority_Dequeue(waiting, P).queue,
                            Queue_Enqueue(ready, top_process), tmp, P, prob)
        ELSE InterruptQueue(Priority_Dequeue(waiting, P).queue, ready,
                            Priority_Enqueue(tmp, P, top_process), P, prob)

Simulator_Process_IO_Queue ==
    /\ IF Priority_IsEmpty(waiting_queue)
       THEN UNCHANGED <<ready_queue, waiting_queue>>
       ELSE \E prob \in [Nodes(waiting_queue.tree, 1) -> BOOLEAN] :
              LET r == InterruptQueue(
                           waiting_queue, ready_queue,
                           Priority_Init("IO_Burst_Compare"), proc,
                           [p \in DOMAIN proc |->
                              \E w \in DOMAIN prob :
                                 waiting_queue.tree[w] = p /\ prob[w]])
              IN  /\ ready_queue' = r.ready
                  /\ waiting_queue' = r.waiting
    /\ UNCHANGED <<proc, cur_cpu_burst, generated_processes,
                   terminated_processes, idle_time, time_quantum,
                   avg_waiting_time, avg_turnaround_time, max_waiting_time,
                   CPU_utilization>>
\* InterruptPriority releasing a process whatever its cpu_burst_time
RECURSIVE InterruptPriority_AnyCpu(_, _, _, _, _)
InterruptPriority_AnyCpu(waiting, ready, tmp, P, prob) ==
    LET top_process == Priority_Top(waiting)
    IN  IF top_process = NULL THEN [ready |-> ready, waiting |-> tmp]
        ELSE IF prob[top_process]
        THEN InterruptPriority_AnyCpu(Priority_Dequeue(waiting, P).queue,
                                      Priority_Enqueue(ready, P, top_process),
                                      tmp, P, prob)
        ELSE InterruptPriority_AnyCpu(Priority_Dequeue(waiting, P).queue, ready,
                                      Priority_Enqueue(tmp, P, top_process), P,
                                      prob)

\* the while loop of Simulator_Process_IO_Priority
RECURSIVE InterruptPriority(_, _, _, _, _)
InterruptPriority(waiting, ready, tmp, P, prob) ==
    LET top_process == Priority_Top(waiting)
    IN  IF top_process = NULL THEN [ready |-> ready, waiting |-> tmp]
        ELSE IF prob[top_process] /\ P[top_process].cpu_burst_time > 1
        THEN InterruptPriority(Priority_Dequeue(waiting, P).queue,
                               Priority_Enqueue(ready, P, top_process), tmp, P,
                               prob)
        ELSE InterruptPriority(Priority_Dequeue(waiting, P).queue, ready,
                               Priority_Enqueue(tmp, P, top_process), P, prob)

Simulator_Process_IO_Priority ==
    /\ IF Priority_IsEmpty(waiting_queue)
       THEN UNCHANGED <<ready_queue, waiting_queue>>
       ELSE \E prob \in [Nodes(waiting_queue.tree, 1) -> BOOLEAN] :
              LET r == InterruptPriority(
                           waiting_queue, ready_queue,
                           Priority_Init("IO_Burst_Compare"), proc,
                           [p \in DOMAIN proc |->
                              \E w \in DOMAIN prob :
                                 waiting_queue.tree[w] = p /\ prob[w]])
              IN  /\ ready_queue' = r.ready
                  /\ waiting_queue' = r.waiting
    /\ UNCHANGED <<proc, cur_cpu_burst, generated_processes,
                   terminated_processes, idle_time, time_quantum,
                   avg_waiting_time, avg_turnaround_time, max_waiting_time,
                   CPU_utilization>>

---------------------------------------------------------------------------
(* simulator.c: evaluation and the execution of a tick *)
\* Simulator_Eval's loop leaving after the first terminated process
EvalDrain_Once(queue, P, waiting, turnaround, max) ==
    LET tmp == Priority_Top(queue)
    IN  IF tmp = NULL
        THEN [queue |-> queue, waiting |-> waiting, turnaround |-> turnaround,
              max |-> max]
        ELSE [queue |-> Priority_Init(queue.compare),
              waiting |-> waiting + P[tmp].waiting_time,
              turnaround |-> turnaround + P[tmp].turnaround_time,
              max |-> IF P[tmp].waiting_time > max THEN P[tmp].waiting_time
                      ELSE max]

\* the while loop of Simulator_Eval over the terminated processes
RECURSIVE EvalDrain(_, _, _, _, _)
EvalDrain(queue, P, waiting, turnaround, max) ==
    LET tmp == Priority_Top(queue)
    IN  IF tmp = NULL
        THEN [queue |-> queue, waiting |-> waiting, turnaround |-> turnaround,
              max |-> max]
        ELSE EvalDrain(Priority_Dequeue(queue, P).queue, P,
                       waiting + P[tmp].waiting_time,
                       turnaround + P[tmp].turnaround_time,
                       IF P[tmp].waiting_time > max THEN P[tmp].waiting_time
                       ELSE max)

\* Simulator_Eval, called with the terminated queue and the process table
\* that the caller has just updated
Simulator_Eval(terminated, P) ==
    LET d == EvalDrain(terminated, P, 0, 0, max_waiting_time)
    IN  /\ CPU_utilization' =
             Divide(elapsed_time + 1 - idle_time, elapsed_time)
        /\ terminated_processes' = d.queue
        /\ avg_waiting_time' =
             Divide(avg_waiting_time.num + d.waiting, num_process)
        /\ avg_turnaround_time' =
             Divide(avg_turnaround_time.num + d.turnaround, num_process)
        /\ max_waiting_time' = d.max
\* the row Simulator_Terminate prints for a simulator in the summary table:
\* (double)(elapsed_time - idle_time) / elapsed_time, avg_waiting_time,
\* avg_turnaround_time, max_waiting_time
Simulator_Terminate ==
    [CPU_Util |-> Divide(elapsed_time - idle_time, elapsed_time),
     Avg_WT |-> avg_waiting_time,
     Avg_TT |-> avg_turnaround_time,
     Max_WT |-> max_waiting_time]

NoEval ==
    UNCHANGED <<avg_waiting_time, avg_turnaround_time, max_waiting_time,
                CPU_utilization>>
\* the CPU burst without turnaround_time++
Run_NoTurnaround(P, cur) ==
    [P EXCEPT ![cur].cpu_burst_time = Decrement(@)]

\* cpu_burst_time-- and turnaround_time++ of the running process
Run(P, cur) ==
    [P EXCEPT ![cur].cpu_burst_time = Decrement(@),
              ![cur].turnaround_time = @ + 1]
\* Simulator_CPU_Burst requesting I/O without testing io_burst_time
Simulator_CPU_Burst_AnyIO(ret) ==
    /\ IF cur_cpu_burst # NULL
       THEN LET cur == cur_cpu_burst
                P == Run(proc, cur)
            IN  /\ proc' = P
                /\ IF P[cur].cpu_burst_time # 0
                   THEN /\ \E prob \in BOOLEAN :
                             IF P[cur].cpu_burst_time = 1 \/ prob
                             THEN /\ waiting_queue' =
                                       Priority_Enqueue(waiting_queue, P, cur)
                                  /\ cur_cpu_burst' = NULL
                             ELSE UNCHANGED <<waiting_queue, cur_cpu_burst>>
                        /\ ret = 0
                        /\ UNCHANGED terminated_processes
                        /\ NoEval
                   ELSE LET terminated ==
                                Priority_Enqueue(terminated_processes, P, cur)
                        IN  /\ cur_cpu_burst' = NULL
                            /\ UNCHANGED waiting_queue
                            /\ IF terminated.count = num_process
                               THEN Simulator_Eval(terminated, P) /\ ret = 1
                               ELSE /\ terminated_processes' = terminated
                                    /\ NoEval
                                    /\ ret = 0
                /\ UNCHANGED idle_time
       ELSE /\ idle_time' = idle_time + 1
            /\ ret = 0
            /\ UNCHANGED <<proc, cur_cpu_burst, waiting_queue,
                           terminated_processes>>
            /\ NoEval
    /\ UNCHANGED <<ready_queue, generated_processes, time_quantum>>

\* ret is the value the call returns
Simulator_CPU_Burst(ret) ==
    /\ IF cur_cpu_burst # NULL
       THEN LET cur == cur_cpu_burst
                P == Run(proc, cur)
            IN  /\ proc' = P
                /\ IF P[cur].cpu_burst_time # 0
                   THEN /\ IF P[cur].io_burst_time # 0
                           THEN \E prob \in BOOLEAN :
                                  IF P[cur].cpu_burst_time = 1 \/ prob
                                  THEN /\ waiting_queue' =
                                            Priority_Enqueue(waiting_queue, P, cur)
                                       /\ cur_cpu_burst' = NULL
                                  ELSE UNCHANGED <<waiting_queue, cur_cpu_burst>>
                           ELSE UNCHANGED <<waiting_queue, cur_cpu_burst>>
                        /\ ret = 0
                        /\ UNCHANGED terminated_processes
                        /\ NoEval
                   ELSE LET terminated ==
                                Priority_Enqueue(terminated_processes, P, cur)
                        IN  /\ cur_cpu_burst' = NULL
                            /\ UNCHANGED waiting_queue
                            /\ IF terminated.count = num_process
                               THEN Simulator_Eval(terminated, P) /\ ret = 1
                               ELSE /\ terminated_processes' = terminated
                                    /\ NoEval
                                    /\ ret = 0
                /\ UNCHANGED idle_time
       ELSE /\ idle_time' = idle_time + 1
            /\ ret = 0
            /\ UNCHANGED <<proc, cur_cpu_burst, waiting_queue,
                           terminated_processes>>
            /\ NoEval
    /\ UNCHANGED <<ready_queue, generated_processes, time_quantum>>
\* Simulator_CPU_Burst_Preemptive without the preemption at its head
Preempt_Never(cur, ready, P) == [cur |-> cur, ready |-> ready]

\* the preemption at the head of Simulator_CPU_Burst_Preemptive
Preempt(cur, ready, P) ==
    IF /\ cur # NULL
       /\ ~Priority_IsEmpty(ready)
       /\ Compare(ready.compare, P, ready.tree[1], cur)
    THEN LoadProcess_Priority(NULL, Priority_Enqueue(ready, P, cur), P)
    ELSE [cur |-> cur, ready |-> ready]
\* Simulator_CPU_Burst_Preemptive ending the simulation at the first
\* termination
Simulator_CPU_Burst_Preemptive_StopEarly(ret) ==
    LET pre == Preempt(cur_cpu_burst, ready_queue, proc)
    IN  /\ ready_queue' = pre.ready
        /\ IF pre.cur # NULL
           THEN LET cur == pre.cur
                    P == Run(proc, cur)
                IN  /\ proc' = P
                    /\ IF P[cur].cpu_burst_time # 0
                       THEN /\ IF P[cur].io_burst_time # 0
                               THEN \E prob \in BOOLEAN :
                                      IF P[cur].cpu_burst_time = 1 \/ prob
                                      THEN /\ waiting_queue' =
                                                Priority_Enqueue(waiting_queue, P, cur)
                                           /\ cur_cpu_burst' = NULL
                                      ELSE /\ cur_cpu_burst' = cur
                                           /\ UNCHANGED waiting_queue
                               ELSE /\ cur_cpu_burst' = cur
                                    /\ UNCHANGED waiting_queue
                            /\ ret = 0
                            /\ UNCHANGED terminated_processes
                            /\ NoEval
                       ELSE LET terminated ==
                                    Priority_Enqueue(terminated_processes, P, cur)
                            IN  /\ cur_cpu_burst' = NULL
                                /\ UNCHANGED waiting_queue
                                /\ Simulator_Eval(terminated, P)
                                /\ ret = 1
                    /\ UNCHANGED idle_time
           ELSE /\ idle_time' = idle_time + 1
                /\ ret = 0
                /\ UNCHANGED <<proc, cur_cpu_burst, waiting_queue,
                               terminated_processes>>
                /\ NoEval
        /\ UNCHANGED <<generated_processes, time_quantum>>

Simulator_CPU_Burst_Preemptive(ret) ==
    LET pre == Preempt(cur_cpu_burst, ready_queue, proc)
    IN  /\ ready_queue' = pre.ready
        /\ IF pre.cur # NULL
           THEN LET cur == pre.cur
                    P == Run(proc, cur)
                IN  /\ proc' = P
                    /\ IF P[cur].cpu_burst_time # 0
                       THEN /\ IF P[cur].io_burst_time # 0
                               THEN \E prob \in BOOLEAN :
                                      IF P[cur].cpu_burst_time = 1 \/ prob
                                      THEN /\ waiting_queue' =
                                                Priority_Enqueue(waiting_queue, P, cur)
                                           /\ cur_cpu_burst' = NULL
                                      ELSE /\ cur_cpu_burst' = cur
                                           /\ UNCHANGED waiting_queue
                               ELSE /\ cur_cpu_burst' = cur
                                    /\ UNCHANGED waiting_queue
                            /\ ret = 0
                            /\ UNCHANGED terminated_processes
                            /\ NoEval
                       ELSE LET terminated ==
                                    Priority_Enqueue(terminated_processes, P, cur)
                            IN  /\ cur_cpu_burst' = NULL
                                /\ UNCHANGED waiting_queue
                                /\ IF terminated.count = num_process
                                   THEN Simulator_Eval(terminated, P) /\ ret = 1
                                   ELSE /\ terminated_processes' = terminated
                                        /\ NoEval
                                        /\ ret = 0
                    /\ UNCHANGED idle_time
           ELSE /\ idle_time' = idle_time + 1
                /\ ret = 0
                /\ UNCHANGED <<proc, cur_cpu_burst, waiting_queue,
                               terminated_processes>>
                /\ NoEval
        /\ UNCHANGED <<generated_processes, time_quantum>>
\* the Round-Robin burst without the time quantum
Simulator_CPU_Burst_RR_NoQuantum(ret) == Simulator_CPU_Burst(ret)
\* Simulator_CPU_Burst_RR without *time_quantum = 0 in the I/O request
Simulator_CPU_Burst_RR_NoReset(ret) ==
    /\ IF cur_cpu_burst # NULL
       THEN LET cur == cur_cpu_burst
                P == Run(proc, cur)
                quantum == time_quantum + 1
            IN  /\ proc' = P
                /\ IF P[cur].cpu_burst_time # 0
                   THEN /\ \E prob \in BOOLEAN :
                             LET io == /\ P[cur].io_burst_time # 0
                                       /\ (P[cur].cpu_burst_time = 1 \/ prob)
                                 cur1 == IF io THEN NULL ELSE cur
                                 quantum1 == quantum
                             IN  /\ waiting_queue' =
                                      IF io
                                      THEN Priority_Enqueue(waiting_queue, P, cur)
                                      ELSE waiting_queue
                                 /\ IF quantum1 = TIME_QUANTUM
                                    THEN /\ ready_queue' =
                                              Queue_Enqueue(ready_queue, cur1)
                                         /\ cur_cpu_burst' = NULL
                                         /\ time_quantum' = 0
                                    ELSE /\ UNCHANGED ready_queue
                                         /\ cur_cpu_burst' = cur1
                                         /\ time_quantum' = quantum1
                        /\ ret = 0
                        /\ UNCHANGED terminated_processes
                        /\ NoEval
                   ELSE LET terminated ==
                                Priority_Enqueue(terminated_processes, P, cur)
                        IN  /\ cur_cpu_burst' = NULL
                            /\ time_quantum' = 0
                            /\ UNCHANGED <<waiting_queue, ready_queue>>
                            /\ IF terminated.count = num_process
                               THEN Simulator_Eval(terminated, P) /\ ret = 1
                               ELSE /\ terminated_processes' = terminated
                                    /\ NoEval
                                    /\ ret = 0
                /\ UNCHANGED idle_time
       ELSE /\ idle_time' = idle_time + 1
            /\ ret = 0
            /\ UNCHANGED <<proc, cur_cpu_burst, waiting_queue, ready_queue,
                           terminated_processes, time_quantum>>
            /\ NoEval
    /\ UNCHANGED generated_processes

Simulator_CPU_Burst_RR(ret) ==
    /\ IF cur_cpu_burst # NULL
       THEN LET cur == cur_cpu_burst
                P == Run(proc, cur)
                quantum == time_quantum + 1
            IN  /\ proc' = P
                /\ IF P[cur].cpu_burst_time # 0
                   THEN /\ \E prob \in BOOLEAN :
                             LET io == /\ P[cur].io_burst_time # 0
                                       /\ (P[cur].cpu_burst_time = 1 \/ prob)
                                 \* the state after the I/O request branch
                                 cur1 == IF io THEN NULL ELSE cur
                                 quantum1 == IF io THEN 0 ELSE quantum
                             IN  /\ waiting_queue' =
                                      IF io
                                      THEN Priority_Enqueue(waiting_queue, P, cur)
                                      ELSE waiting_queue
                                 /\ IF quantum1 = TIME_QUANTUM
                                    THEN /\ ready_queue' =
                                              Queue_Enqueue(ready_queue, cur1)
                                         /\ cur_cpu_burst' = NULL
                                         /\ time_quantum' = 0
                                    ELSE /\ UNCHANGED ready_queue
                                         /\ cur_cpu_burst' = cur1
                                         /\ time_quantum' = quantum1
                        /\ ret = 0
                        /\ UNCHANGED terminated_processes
                        /\ NoEval
                   ELSE LET terminated ==
                                Priority_Enqueue(terminated_processes, P, cur)
                        IN  /\ cur_cpu_burst' = NULL
                            /\ time_quantum' = 0
                            /\ UNCHANGED <<waiting_queue, ready_queue>>
                            /\ IF terminated.count = num_process
                               THEN Simulator_Eval(terminated, P) /\ ret = 1
                               ELSE /\ terminated_processes' = terminated
                                    /\ NoEval
                                    /\ ret = 0
                /\ UNCHANGED idle_time
       ELSE /\ idle_time' = idle_time + 1
            /\ ret = 0
            /\ UNCHANGED <<proc, cur_cpu_burst, waiting_queue, ready_queue,
                           terminated_processes, time_quantum>>
            /\ NoEval
    /\ UNCHANGED generated_processes

---------------------------------------------------------------------------
(* simulator.c: the six scheduling loops *)

Frame == UNCHANGED <<flag, num_process, workload, benchvars>>

\* in the loop of policy f, pc moves from statement here to statement there
\* of the while (1) body
Goto(f, here, there) ==
    /\ flag = f
    /\ pc = here
    /\ pc' = there
    /\ IF here = "Waiting" THEN TRUE ELSE UNCHANGED aged
    /\ ready_at_dispatch' = IF here = "LoadProcess"
                            THEN ready_queue.count > 0
                            ELSE ready_at_dispatch
    /\ slot_at_dispatch' = IF here = "LoadProcess"
                           THEN cur_cpu_burst
                           ELSE slot_at_dispatch
    /\ UNCHANGED elapsed_time
    /\ Frame
\* the loop incrementing elapsed_time before it tests the return value
Loop_IncrementFirst(f, ret) ==
    /\ flag = f
    /\ pc = "CPU_Burst"
    /\ elapsed_time < MaxTick
    /\ elapsed_time' = elapsed_time + 1
    /\ IF ret # 0
       THEN /\ pc' = "done"
            /\ UNCHANGED <<aged, ready_at_dispatch, slot_at_dispatch>>
       ELSE /\ pc' = "LoadReadyQueue"
            /\ aged' = {}
            /\ ready_at_dispatch' = FALSE
            /\ slot_at_dispatch' = NULL
    /\ Frame

\* if (Simulator_CPU_Burst...(simulator)) return; simulator->elapsed_time++;
Loop(f, ret) ==
    /\ flag = f
    /\ pc = "CPU_Burst"
    /\ IF ret # 0
       THEN /\ pc' = "done"
            /\ UNCHANGED <<elapsed_time, aged, ready_at_dispatch,
                           slot_at_dispatch>>
       ELSE /\ elapsed_time < MaxTick
            /\ elapsed_time' = elapsed_time + 1
            /\ pc' = "LoadReadyQueue"
            /\ aged' = {}
            /\ ready_at_dispatch' = FALSE
            /\ slot_at_dispatch' = NULL
    /\ Frame

Simulator_FCFS ==
    \/ Goto(FCFS, "LoadReadyQueue", "LoadProcess") /\ Simulator_LoadReadyQueue
    \/ Goto(FCFS, "LoadProcess", "Waiting") /\ Simulator_LoadProcess
    \/ Goto(FCFS, "Waiting", "Process_IO") /\ Simulator_Queue_Waiting
    \/ Goto(FCFS, "Process_IO", "Interrupt") /\ Simulator_Process_IO
    \/ Goto(FCFS, "Interrupt", "CPU_Burst") /\ Simulator_Process_IO_Queue
    \/ \E ret \in {0, 1} : Loop(FCFS, ret) /\ Simulator_CPU_Burst(ret)

Simulator_NonPreemptiveSJF ==
    \/ Goto(NON_PREEMPTIVE_SJF, "LoadReadyQueue", "LoadProcess") /\ Simulator_LoadReadyQueue_Priority
    \/ Goto(NON_PREEMPTIVE_SJF, "LoadProcess", "Waiting") /\ Simulator_LoadProcess_Priority
    \/ Goto(NON_PREEMPTIVE_SJF, "Waiting", "Process_IO") /\ Simulator_Priority_Waiting
    \/ Goto(NON_PREEMPTIVE_SJF, "Process_IO", "Interrupt") /\ Simulator_Process_IO
    \/ Goto(NON_PREEMPTIVE_SJF, "Interrupt", "CPU_Burst") /\ Simulator_Process_IO_Priority
    \/ \E ret \in {0, 1} : Loop(NON_PREEMPTIVE_SJF, ret) /\ Simulator_CPU_Burst(ret)

Simulator_PreemptiveSJF ==
    \/ Goto(PREEMPTIVE_SJF, "LoadReadyQueue", "LoadProcess") /\ Simulator_LoadReadyQueue_Priority
    \/ Goto(PREEMPTIVE_SJF, "LoadProcess", "Waiting") /\ Simulator_LoadProcess_Priority
    \/ Goto(PREEMPTIVE_SJF, "Waiting", "Process_IO") /\ Simulator_Priority_Waiting
    \/ Goto(PREEMPTIVE_SJF, "Process_IO", "Interrupt") /\ Simulator_Process_IO
    \/ Goto(PREEMPTIVE_SJF, "Interrupt", "CPU_Burst") /\ Simulator_Process_IO_Priority
    \/ \E ret \in {0, 1} : Loop(PREEMPTIVE_SJF, ret) /\ Simulator_CPU_Burst_Preemptive(ret)

Simulator_NonPreemptivePriority ==
    \/ Goto(NON_PREEMPTIVE_PRIORITY, "LoadReadyQueue", "LoadProcess") /\ Simulator_LoadReadyQueue_Priority
    \/ Goto(NON_PREEMPTIVE_PRIORITY, "LoadProcess", "Waiting") /\ Simulator_LoadProcess_Priority
    \/ Goto(NON_PREEMPTIVE_PRIORITY, "Waiting", "Process_IO") /\ Simulator_Priority_Waiting
    \/ Goto(NON_PREEMPTIVE_PRIORITY, "Process_IO", "Interrupt") /\ Simulator_Process_IO
    \/ Goto(NON_PREEMPTIVE_PRIORITY, "Interrupt", "CPU_Burst") /\ Simulator_Process_IO_Priority
    \/ \E ret \in {0, 1} : Loop(NON_PREEMPTIVE_PRIORITY, ret) /\ Simulator_CPU_Burst(ret)

Simulator_PreemptivePriority ==
    \/ Goto(PREEMPTIVE_PRIORITY, "LoadReadyQueue", "LoadProcess") /\ Simulator_LoadReadyQueue_Priority
    \/ Goto(PREEMPTIVE_PRIORITY, "LoadProcess", "Waiting") /\ Simulator_LoadProcess_Priority
    \/ Goto(PREEMPTIVE_PRIORITY, "Waiting", "Process_IO") /\ Simulator_Priority_Waiting
    \/ Goto(PREEMPTIVE_PRIORITY, "Process_IO", "Interrupt") /\ Simulator_Process_IO
    \/ Goto(PREEMPTIVE_PRIORITY, "Interrupt", "CPU_Burst") /\ Simulator_Process_IO_Priority
    \/ \E ret \in {0, 1} : Loop(PREEMPTIVE_PRIORITY, ret) /\ Simulator_CPU_Burst_Preemptive(ret)

Simulator_RoundRobin ==
    \/ Goto(ROUND_ROBIN, "LoadReadyQueue", "LoadProcess") /\ Simulator_LoadReadyQueue
    \/ Goto(ROUND_ROBIN, "LoadProcess", "Waiting") /\ Simulator_LoadProcess
    \/ Goto(ROUND_ROBIN, "Waiting", "Process_IO") /\ Simulator_Queue_Waiting
    \/ Goto(ROUND_ROBIN, "Process_IO", "Interrupt") /\ Simulator_Process_IO
    \/ Goto(ROUND_ROBIN, "Interrupt", "CPU_Burst") /\ Simulator_Process_IO_Queue
    \/ \E ret \in {0, 1} : Loop(ROUND_ROBIN, ret) /\ Simulator_CPU_Burst_RR(ret)

\* the switch on simulator->flag
Simulator_Start ==
    \/ Simulator_FCFS
    \/ Simulator_NonPreemptiveSJF
    \/ Simulator_PreemptiveSJF
    \/ Simulator_NonPreemptivePriority
    \/ Simulator_PreemptivePriority
    \/ Simulator_RoundRobin

Next == Simulator_Start

Spec == Init /\ [][Next]_vars

\* The workloads of N >= 1 processes whose bursts are the extremes of the
\* generated ranges (or longer than the time quantum) and whose priority
\* follows the arrival time.
LiveInit ==
    /\ Init
    /\ num_process >= 1
    /\ \A p \in DOMAIN workload :
         /\ workload[p].cpu_burst_time \in {1, MaxCpu, TIME_QUANTUM + 1}
         /\ workload[p].io_burst_time \in {0, MaxIo}
         /\ workload[p].priority = 0 - workload[p].arrival_time

\* The program runs alone and never blocks: it takes its next step.
LiveSpec == LiveInit /\ [][Next]_vars /\ WF_vars(Next)

---------------------------------------------------------------------------
(* The queue test bench: any interleaving of the calls of queue.c on a     *)
(* FIFO queue, or of priority_queue.c on a heap under one of the four      *)
(* comparators, over processes whose key fields stay as generated.         *)

BenchPids == 1 .. BenchProcs

\* The processes of the bench: the comparators read different fields, so
\* the fields order the processes differently.
BenchProcess(pid, key) ==
    [pid |-> pid, cpu_burst_time |-> key + 1, io_burst_time |-> MaxKey - key,
     arrival_time |-> key, priority |-> 0 - key, waiting_time |-> 0,
     turnaround_time |-> 0]

IsHeap(queue) == "tree" \in DOMAIN queue

\* the process pointers a heap stores
Stored(queue) == {queue.tree[w] : w \in DOMAIN queue.tree}

SimIdle ==
    /\ flag = FCFS
    /\ num_process = 0
    /\ workload = <<>>
    /\ generated_processes = Priority_Init("Simulator_ArrivalTime_Compare")
    /\ terminated_processes = Priority_Init("Simulator_ArrivalTime_Compare")
    /\ waiting_queue = Priority_Init("IO_Burst_Compare")
    /\ ready_queue = Queue_Init
    /\ cur_cpu_burst = NULL
    /\ elapsed_time = 0
    /\ idle_time = 0
    /\ avg_waiting_time = Number(0)
    /\ avg_turnaround_time = Number(0)
    /\ max_waiting_time = 0
    /\ time_quantum = 0
    /\ CPU_utilization = NoValue
    /\ pc = "bench"
    /\ aged = {}
    /\ ready_at_dispatch = FALSE
    /\ slot_at_dispatch = NULL

BenchInit ==
    /\ SimIdle
    /\ \/ /\ bench_queue = Queue_Init
          /\ proc = [pid \in BenchPids |-> BenchProcess(pid, 0)]
       \/ \E cmp \in Comparators, key \in [BenchPids -> 0 .. MaxKey] :
            /\ bench_queue = Priority_Init(cmp)
            /\ proc = [pid \in BenchPids |-> BenchProcess(pid, key[pid])]
    /\ bench_op = "none"
    /\ bench_ret = 0
    /\ enq_log = <<>>
    /\ deq_log = <<>>

Bench_Queue_Enqueue ==
    /\ ~IsHeap(bench_queue)
    /\ Len(enq_log) < MaxEnq
    /\ \E process \in BenchPids :
         /\ bench_queue' = Queue_Enqueue(bench_queue, process)
         /\ enq_log' = Append(enq_log, process)
    /\ bench_op' = "Queue_Enqueue"
    /\ bench_ret' = 1
    /\ UNCHANGED <<deq_log, simvars, proc>>

\* Queue_Front, then Queue_Dequeue
Bench_Queue_Dequeue ==
    /\ ~IsHeap(bench_queue)
    /\ LET d == Queue_Dequeue(bench_queue)
       IN  /\ bench_queue' = d.queue
           /\ bench_ret' = d.ret
           /\ deq_log' = IF d.ret # 0
                         THEN Append(deq_log, Queue_Front(bench_queue))
                         ELSE deq_log
    /\ bench_op' = "Queue_Dequeue"
    /\ UNCHANGED <<enq_log, simvars, proc>>

Bench_Queue_Front ==
    /\ ~IsHeap(bench_queue)
    /\ bench_ret' = Queue_Front(bench_queue)
    /\ bench_op' = "Queue_Front"
    /\ UNCHANGED <<bench_queue, enq_log, deq_log, simvars, proc>>

Bench_Priority_Enqueue ==
    /\ IsHeap(bench_queue)
    /\ \E process \in BenchPids \ Stored(bench_queue) :
         bench_queue' = Priority_Enqueue(bench_queue, proc, process)
    /\ bench_op' = "Priority_Enqueue"
    /\ bench_ret' = 1
    /\ UNCHANGED <<enq_log, deq_log, simvars, proc>>

Bench_Priority_Dequeue ==
    /\ IsHeap(bench_queue)
    /\ LET d == Priority_Dequeue(bench_queue, proc)
       IN  /\ bench_queue' = d.queue
           /\ bench_ret' = d.ret
    /\ bench_op' = "Priority_Dequeue"
    /\ UNCHANGED <<enq_log, deq_log, simvars, proc>>

Bench_Priority_Top ==
    /\ IsHeap(bench_queue)
    /\ bench_ret' = Priority_Top(bench_queue)
    /\ bench_op' = "Priority_Top"
    /\ UNCHANGED <<bench_queue, enq_log, deq_log, simvars, proc>>

BenchNext ==
    \/ Bench_Queue_Enqueue
    \/ Bench_Queue_Dequeue
    \/ Bench_Queue_Front
    \/ Bench_Priority_Enqueue
    \/ Bench_Priority_Dequeue
    \/ Bench_Priority_Top

QueueSpec == BenchInit /\ [][BenchNext]_vars

---------------------------------------------------------------------------
(* Properties of the queues *)

\* every node but the top hangs below a node, and no node compares strictly
\* ahead of its parent under the comparator of the queue
HeapOrdered(queue, P) ==
    \A w \in DOMAIN queue.tree :
      w # 1 =>
        /\ Parent(w) \in DOMAIN queue.tree
        /\ ~Compare(queue.compare, P, queue.tree[w], queue.tree[Parent(w)])

\* the stored process that compares ahead of every other stored process
Minimum(queue, P) ==
    CHOOSE m \in Stored(queue) :
      \A x \in Stored(queue) \ {m} : Compare(queue.compare, P, m, x)

\* C2: under each of the four comparators, after every Priority_Enqueue and
\* Priority_Dequeue call of any interleaving on processes with distinct
\* pids and fixed keys, no child node compares strictly ahead of its parent.
C2_HeapInvariant ==
    IsHeap(bench_queue) => HeapOrdered(bench_queue, proc)

\* a dequeue has left four nodes of distinct keys order, the top not being
\* the process of lowest pid
C2_Witness ==
    /\ IsHeap(bench_queue)
    /\ bench_op = "Priority_Dequeue"
    /\ bench_ret = 1
    /\ bench_queue.count = 4
    /\ bench_queue.tree[1] = 5
    /\ bench_queue.tree[2] # 1

C3_Step ==
    IsHeap(bench_queue) =>
      /\ (bench_op' = "Priority_Top" /\ bench_queue.count > 0) =>
           /\ bench_ret' = Minimum(bench_queue, proc)
           /\ bench_queue' = bench_queue
      /\ (bench_op' = "Priority_Dequeue" /\ bench_queue.count > 0) =>
           /\ bench_ret' = 1
           /\ Stored(bench_queue') =
                Stored(bench_queue) \ {Minimum(bench_queue, proc)}
           /\ bench_queue'.count = bench_queue.count - 1
      /\ (bench_op' = "Priority_Enqueue") =>
           /\ \E process \in BenchPids \ Stored(bench_queue) :
                Stored(bench_queue') = Stored(bench_queue) \cup {process}
           /\ bench_queue'.count = bench_queue.count + 1
      /\ bench_queue'.count = Cardinality(Stored(bench_queue'))
      /\ bench_queue'.count = Cardinality(DOMAIN bench_queue'.tree)

\* C3: on a non-empty heap Priority_Top returns the minimum of the stored
\* processes under the comparator and changes nothing; Priority_Dequeue
\* removes exactly that process, decrements count by one and keeps every
\* other process; count always is the number of stored processes.
C3_TopIsMinimum == [][C3_Step]_vars

\* a dequeue has removed the minimum of four stored processes
C3_Witness ==
    /\ IsHeap(bench_queue)
    /\ bench_op = "Priority_Dequeue"
    /\ bench_ret = 1
    /\ bench_queue.count = 3
    /\ 1 \notin Stored(bench_queue)
    /\ proc[1].cpu_burst_time # proc[2].cpu_burst_time

\* C4: the processes seen by Queue_Front right before each successful
\* Queue_Dequeue are the enqueued processes in enqueue order, and count is
\* the number of processes enqueued and not yet dequeued (which the list
\* holds, in enqueue order).
C4_Fifo ==
    ~IsHeap(bench_queue) =>
      /\ Len(deq_log) <= Len(enq_log)
      /\ deq_log = SubSeq(enq_log, 1, Len(deq_log))
      /\ bench_queue.count = Len(enq_log) - Len(deq_log)
      /\ bench_queue.list = SubSeq(enq_log, Len(deq_log) + 1, Len(enq_log))

\* enqueues and dequeues were interleaved: two different processes have been
\* dequeued, an enqueue followed, and two processes are still queued
C4_Witness ==
    /\ ~IsHeap(bench_queue)
    /\ bench_op = "Queue_Enqueue"
    /\ Len(deq_log) = 2
    /\ deq_log[1] # deq_log[2]
    /\ bench_queue.count = 2
    /\ bench_queue.list[1] # bench_queue.list[2]

C5_Step ==
    bench_queue.count = 0 =>
      /\ bench_op' \in {"Queue_Dequeue", "Priority_Dequeue"} =>
           /\ bench_ret' = 0
           /\ bench_queue' = bench_queue
      /\ bench_op' \in {"Queue_Front", "Priority_Top"} =>
           /\ bench_ret' = NULL
           /\ bench_queue' = bench_queue
      /\ IF IsHeap(bench_queue) THEN bench_queue.tree = <<>>
                                ELSE bench_queue.list = <<>>
      /\ bench_op' = "Queue_Enqueue" =>
           /\ bench_queue'.count = 1
           /\ Queue_Front(bench_queue') = enq_log'[Len(enq_log')]
      /\ bench_op' = "Priority_Enqueue" =>
           /\ bench_queue'.count = 1
           /\ Priority_Top(bench_queue') \in BenchPids

\* C5: on an empty FIFO queue or heap, Queue_Dequeue and Priority_Dequeue
\* return 0 and change nothing (count stays 0 and front, rear, top stay
\* NULL), Queue_Front and Priority_Top return NULL, and a later enqueue
\* stores its process at the front or top.
C5_Underflow == [][C5_Step]_vars

\* a heap that was filled and emptied has answered a further dequeue with 0
C5_Witness ==
    /\ IsHeap(bench_queue)
    /\ bench_op = "Priority_Dequeue"
    /\ bench_ret = 0
    /\ bench_queue.count = 0

---------------------------------------------------------------------------
(* Properties of the simulation *)

\* the number of references to process p held by the five places of a
\* simulator
Holders(p) ==
    TreeVisits(generated_processes.tree, p)
    + (IF IsHeap(ready_queue) THEN TreeVisits(ready_queue.tree, p)
                              ELSE ListVisits(ready_queue.list, p))
    + (IF cur_cpu_burst = p THEN 1 ELSE 0)
    + TreeVisits(waiting_queue.tree, p)
    + TreeVisits(terminated_processes.tree, p)

\* C1 as claimed: after every step of every tick, the last execute step
\* included, each process is held by exactly one of job pool, ready
\* structure, CPU slot, waiting heap and terminated pool.
C1_ExactlyOneHolder == \A p \in DOMAIN proc : Holders(p) = 1

\* C1 as amended: each process is held exactly once after every step of
\* every tick until the execute step that terminates the last process; that
\* step runs Simulator_Eval, which empties the terminated pool, and from then
\* on no structure holds any process.
C1_ExactlyOneHolderUntilEval ==
    /\ pc # "done" => \A p \in DOMAIN proc : Holders(p) = 1
    /\ pc = "done" => \A p \in DOMAIN proc : Holders(p) = 0

\* at the start of a tick one process is in I/O, the other has terminated
C1_Witness ==
    /\ pc = "LoadReadyQueue"
    /\ num_process = 2
    /\ elapsed_time > 0
    /\ waiting_queue.count = 1
    /\ terminated_processes.count = 1

C6_Step ==
    \A p \in DOMAIN proc :
      (proc[p].cpu_burst_time # 0 /\ proc'[p].cpu_burst_time = 0) =>
        proc'[p].turnaround_time = elapsed_time - proc[p].arrival_time + 1

\* C6: under every policy, a process that terminates in a tick has
\* turnaround_time = that tick - arrival_time + 1.
C6_TurnaroundAtTermination == [][C6_Step]_vars

\* the sum of f[p] over the processes p in S
RECURSIVE Sum(_, _)
Sum(f, S) ==
    IF S = {} THEN 0
    ELSE LET p == CHOOSE x \in S : TRUE IN f[p] + Sum(f, S \ {p})

AllDone ==
    /\ pc = "done"
    /\ \A p \in DOMAIN proc : proc[p].cpu_burst_time = 0
    /\ terminated_processes.count = 0
    /\ CPU_utilization # NoValue

\* C7: for every policy, every workload of N >= 1 processes and every
\* outcome of the random trials, the loop stops: every process has
\* terminated and the evaluation has run.
C7_Terminates == <>AllDone

\* two processes with I/O have terminated after the CPU was idle
C7_Witness ==
    /\ AllDone
    /\ num_process = 2
    /\ \A p \in DOMAIN workload : workload[p].io_burst_time > 0
    /\ idle_time > 0

\* sum(cpu_burst_time) + sum(io_burst_time) + max(arrival_time) as generated
TickBound ==
    Sum([p \in DOMAIN workload |-> workload[p].cpu_burst_time], DOMAIN workload)
    + Sum([p \in DOMAIN workload |-> workload[p].io_burst_time], DOMAIN workload)
    + CHOOSE a \in {workload[p].arrival_time : p \in DOMAIN workload} :
        \A p \in DOMAIN workload : workload[p].arrival_time <= a

\* C8: for N >= 1 the number of ticks executed, elapsed_time + 1, never
\* exceeds sum(cpu_burst_time) + sum(io_burst_time) + max(arrival_time).
C8_TickBound == num_process >= 1 => elapsed_time + 1 <= TickBound

\* a run of two processes with I/O that needed every tick of the bound
C8_Witness ==
    /\ pc = "done"
    /\ elapsed_time + 1 = TickBound
    /\ num_process = 2
    /\ \E p \in DOMAIN workload : workload[p].io_burst_time > 0
    /\ \E p \in DOMAIN workload : workload[p].arrival_time > 0
    /\ elapsed_time + 1 = TickBound

\* C9: when the evaluation is reached with elapsed_time = 0 the division is
\* guarded and the CPU utilization reported is zero.
C9_GuardedDivision ==
    (pc = "done" /\ elapsed_time = 0) =>
      (CPU_utilization.kind = "number" /\ CPU_utilization.num = 0)

\* C10: for the empty workload the loop stops at the end of its first tick,
\* where the terminated count equals the workload size: no second tick.
C10_EmptyWorkloadStops ==
    (num_process = 0 /\ terminated_processes.count = num_process) =>
      (pc = "done" \/ elapsed_time = 0)

---------------------------------------------------------------------------
(* Evaluation and the scenarios of the policies *)

\* C11: when the simulation of N >= 1 processes has stopped, avg_waiting_time
\* is the sum of the waiting_time of all N processes divided by N,
\* avg_turnaround_time is the sum of their turnaround_time divided by N, and
\* the terminated pool is empty.
C11_Averages ==
    (pc = "done" /\ num_process >= 1) =>
      /\ avg_waiting_time =
           [kind |-> "number",
            num |-> Sum([p \in DOMAIN proc |-> proc[p].waiting_time],
                        DOMAIN proc),
            den |-> num_process]
      /\ avg_turnaround_time =
           [kind |-> "number",
            num |-> Sum([p \in DOMAIN proc |-> proc[p].turnaround_time],
                        DOMAIN proc),
            den |-> num_process]
      /\ terminated_processes.count = 0

\* two processes with different waiting times have been evaluated
C11_Witness ==
    /\ pc = "done"
    /\ num_process = 2
    /\ proc[1].waiting_time # proc[2].waiting_time
    /\ proc[2].waiting_time > 0
    /\ avg_waiting_time.num = proc[1].waiting_time + proc[2].waiting_time

\* C12: under FCFS a single process with cpu_burst_time c, no I/O and
\* arrival_time a stops the simulation with waiting_time 0, turnaround_time
\* c, elapsed_time a + c - 1 and idle_time a.
C12_SingleProcessFCFS ==
    (/\ pc = "done"
     /\ flag = FCFS
     /\ num_process = 1
     /\ workload[1].io_burst_time = 0) =>
      /\ proc[1].waiting_time = 0
      /\ proc[1].turnaround_time = workload[1].cpu_burst_time
      /\ elapsed_time =
           workload[1].arrival_time + workload[1].cpu_burst_time - 1
      /\ idle_time = workload[1].arrival_time

\* the single process arrived at tick 1 and ran its three ticks
C12_Witness ==
    /\ pc = "done"
    /\ flag = FCFS
    /\ num_process = 1
    /\ workload[1].io_burst_time = 0
    /\ workload[1].arrival_time = 1
    /\ workload[1].cpu_burst_time = MaxCpu
    /\ proc[1].turnaround_time = MaxCpu

\* every process of the workload has the same arrival_time and no I/O
SameArrivalNoIo ==
    \A p, q \in DOMAIN workload :
      /\ workload[p].arrival_time = workload[q].arrival_time
      /\ workload[p].io_burst_time = 0

\* q comes before p in increasing (cpu_burst_time, pid) order
ShorterFirst(q, p) ==
    \/ workload[q].cpu_burst_time < workload[p].cpu_burst_time
    \/ /\ workload[q].cpu_burst_time = workload[p].cpu_burst_time
       /\ q < p

C13_Step ==
    (/\ flag = NON_PREEMPTIVE_SJF
     /\ SameArrivalNoIo
     /\ cur_cpu_burst = NULL
     /\ cur_cpu_burst' # NULL) =>
      LET p == cur_cpu_burst'
          before == {q \in DOMAIN workload : ShorterFirst(q, p)}
      IN  /\ \A q \in before : proc[q].cpu_burst_time = 0
          /\ \A q \in DOMAIN workload \ (before \cup {p}) :
               proc[q].cpu_burst_time = workload[q].cpu_burst_time
          /\ proc[p].cpu_burst_time = workload[p].cpu_burst_time
          /\ proc'[p].waiting_time =
               Sum([q \in DOMAIN workload |-> workload[q].cpu_burst_time],
                   before)

\* C13: under Non-Preemptive SJF, when all processes have the same
\* arrival_time and no I/O, each dispatch takes the next process in
\* increasing (cpu_burst_time, pid) order: the processes before it in that
\* order have run to completion, the others have not started, and its
\* waiting_time is the sum of the cpu_burst_time of the processes before it.
C13_ShortestFirst == [][C13_Step]_vars

\* P1 with the longer burst has just been dispatched after waiting for the
\* whole burst of P2
C13_Witness ==
    /\ flag = NON_PREEMPTIVE_SJF
    /\ SameArrivalNoIo
    /\ num_process = 2
    /\ pc = "Waiting"
    /\ cur_cpu_burst = 1
    /\ workload[2].cpu_burst_time = MaxCpu
    /\ workload[1].cpu_burst_time > MaxCpu
    /\ proc[1].cpu_burst_time = workload[1].cpu_burst_time
    /\ proc[1].waiting_time = MaxCpu

HeapPolicies ==
    {NON_PREEMPTIVE_SJF, PREEMPTIVE_SJF, NON_PREEMPTIVE_PRIORITY,
     PREEMPTIVE_PRIORITY}

\* the field the ready heap of policy f is ordered by
PolicyKey(f, process) ==
    IF f \in {NON_PREEMPTIVE_SJF, PREEMPTIVE_SJF}
    THEN process.cpu_burst_time
    ELSE process.priority

\* p is ahead of q under the policy: smaller key, or equal key and lower pid
Ahead(f, P, p, q) ==
    \/ PolicyKey(f, P[p]) < PolicyKey(f, P[q])
    \/ /\ PolicyKey(f, P[p]) = PolicyKey(f, P[q])
       /\ p < q

C14_Step ==
    (/\ flag \in HeapPolicies
     /\ cur_cpu_burst = NULL
     /\ cur_cpu_burst' # NULL) =>
      /\ cur_cpu_burst' \in Stored(ready_queue)
      /\ \A q \in Stored(ready_queue) \ {cur_cpu_burst'} :
           Ahead(flag, proc, cur_cpu_burst', q)

\* C14: under the four heap-backed policies the process moved from ready
\* into the empty CPU slot has the smallest key of the ready heap
\* (cpu_burst_time for SJF, priority for Priority) and, among those equal on
\* the key, the lowest pid.
C14_DispatchMinimum == [][C14_Step]_vars

\* P1 has just been dispatched ahead of P2 of equal priority, which waits in
\* ready since an I/O interrupt returned it there
C14_Witness ==
    /\ flag \in {NON_PREEMPTIVE_PRIORITY, PREEMPTIVE_PRIORITY}
    /\ pc = "Waiting"
    /\ cur_cpu_burst = 1
    /\ 2 \in Stored(ready_queue)
    /\ proc[1].priority = proc[2].priority
    /\ proc[1].io_burst_time = 0
    /\ workload[1].io_burst_time > 0
    /\ proc[2].io_burst_time > 0
    /\ proc[2].io_burst_time < workload[2].io_burst_time

\* a process without I/O whose burst is longer than the time quantum
CpuBound(p) ==
    /\ workload[p].io_burst_time = 0
    /\ workload[p].cpu_burst_time > TIME_QUANTUM

C15_Step ==
    flag = ROUND_ROBIN =>
      \A p \in DOMAIN proc :
        (CpuBound(p) /\ cur_cpu_burst = p) =>
          LET executed == workload[p].cpu_burst_time - proc'[p].cpu_burst_time
          IN  IF pc # "CPU_Burst"
              THEN cur_cpu_burst' = p
              ELSE /\ proc'[p].cpu_burst_time = proc[p].cpu_burst_time - 1
                   /\ cur_cpu_burst' = p <=>
                        /\ proc'[p].cpu_burst_time # 0
                        /\ executed % TIME_QUANTUM # 0
                   /\ cur_cpu_burst' # p => cur_cpu_burst' = NULL
                   /\ (cur_cpu_burst' # p /\ proc'[p].cpu_burst_time # 0) =>
                        ready_queue'.list = Append(ready_queue.list, p)
                   /\ proc'[p].cpu_burst_time = 0 =>
                        ListVisits(ready_queue'.list, p) = 0

\* C15: under Round Robin a process without I/O and with a burst longer than
\* the quantum stays in the CPU slot through every step but the execute
\* step; the execute step takes it out exactly when the ticks it has
\* executed reach a multiple of the quantum (it goes to the tail of ready,
\* behind every process there) or its cpu_burst_time reaches 0 (it is not
\* requeued).  So every stay is 10 ticks long and a burst of c ticks is
\* requeued floor((c - 1) / 10) times.
C15_QuantumRequeue == [][C15_Step]_vars

\* P1 has used its quantum and stands in ready behind P2, with one tick of
\* its burst left
C15_Witness ==
    /\ flag = ROUND_ROBIN
    /\ num_process = 2
    /\ CpuBound(1)
    /\ pc = "LoadReadyQueue"
    /\ cur_cpu_burst = NULL
    /\ ready_queue.list = <<2, 1>>
    /\ proc[1].cpu_burst_time = workload[1].cpu_burst_time - TIME_QUANTUM

PreemptivePolicies == {PREEMPTIVE_SJF, PREEMPTIVE_PRIORITY}

C16_Step ==
    flag \in PreemptivePolicies =>
      \A p \in DOMAIN proc :
        proc'[p].cpu_burst_time # proc[p].cpu_burst_time =>
          /\ \A q \in Stored(ready_queue') : ~Ahead(flag, proc, q, p)
          /\ (cur_cpu_burst # NULL /\ cur_cpu_burst # p) =>
               /\ TreeVisits(ready_queue'.tree, cur_cpu_burst) = 1
               /\ proc'[cur_cpu_burst] = proc[cur_cpu_burst]

\* C16: under the two preemptive policies, in every execute step in which a
\* process runs, no process left in ready is ahead of the running process by
\* the (key, pid) order on the fields as they are when cpu_burst_time is
\* decremented, and a process displaced from the CPU slot is in ready once,
\* unchanged.
C16_NoReadyAhead == [][C16_Step]_vars

\* a process without I/O that has run part of its burst is back in ready:
\* it was displaced
C16_Witness ==
    /\ flag \in PreemptivePolicies
    /\ pc = "LoadReadyQueue"
    /\ \E q \in Stored(ready_queue) :
         /\ workload[q].io_burst_time = 0
         /\ proc[q].cpu_burst_time < workload[q].cpu_burst_time
         /\ cur_cpu_burst \notin {NULL, q}

NonPreemptivePolicies == {FCFS, NON_PREEMPTIVE_SJF, NON_PREEMPTIVE_PRIORITY}

\* how many nodes of a ready structure point to process p
ReadyVisits(queue, p) ==
    IF IsHeap(queue) THEN TreeVisits(queue.tree, p)
    ELSE ListVisits(queue.list, p)

C17_Step ==
    (flag \in NonPreemptivePolicies /\ cur_cpu_burst # NULL) =>
      LET p == cur_cpu_burst
      IN  /\ ReadyVisits(ready_queue', p) = 0
          /\ cur_cpu_burst' # p =>
               /\ cur_cpu_burst' = NULL
               /\ IF proc'[p].cpu_burst_time = 0
                  THEN /\ TreeVisits(waiting_queue'.tree, p) = 0
                       /\ \/ TreeVisits(terminated_processes'.tree, p) = 1
                          \/ pc' = "done"
                  ELSE TreeVisits(waiting_queue'.tree, p) = 1

\* C17: under FCFS, Non-Preemptive SJF and Non-Preemptive Priority no step
\* moves the process in the CPU slot into ready; it leaves the slot only
\* into the terminated pool, with cpu_burst_time 0, or into the waiting heap.
C17_NoPreemption == [][C17_Step]_vars

\* a tick has ended with the process in the CPU slot still running although
\* a process in the ready heap is ahead of it
C17_Witness ==
    /\ flag \in {NON_PREEMPTIVE_SJF, NON_PREEMPTIVE_PRIORITY}
    /\ pc = "LoadReadyQueue"
    /\ cur_cpu_burst # NULL
    /\ proc[cur_cpu_burst].cpu_burst_time
         < workload[cur_cpu_burst].cpu_burst_time
    /\ ~Priority_IsEmpty(ready_queue)
    /\ Ahead(flag, proc, ready_queue.tree[1], cur_cpu_burst)

\* after the admit step of tick elapsed_time
C18_Admitted ==
    pc = "LoadProcess" =>
      /\ \A q \in Stored(generated_processes) :
           proc[q].arrival_time > elapsed_time
      /\ \A q \in Stored(waiting_queue) : proc[q].io_burst_time # 0

C18_Step ==
    \A p \in DOMAIN proc :
      /\ (/\ TreeVisits(generated_processes.tree, p) = 1
          /\ TreeVisits(generated_processes'.tree, p) = 0) =>
           /\ pc = "LoadReadyQueue"
           /\ proc[p].arrival_time = elapsed_time
           /\ ReadyVisits(ready_queue', p) = 1
      /\ (/\ pc = "LoadReadyQueue"
          /\ TreeVisits(waiting_queue.tree, p) = 1
          /\ proc[p].io_burst_time = 0) =>
           /\ TreeVisits(waiting_queue'.tree, p) = 0
           /\ ReadyVisits(ready_queue', p) = 1

\* C18: for every policy, after the admit step of tick t the job pool holds
\* no process with arrival_time <= t and the waiting heap none with
\* io_burst_time 0; a process leaves the job pool only in the admit step of
\* the tick equal to its arrival_time, into ready, and the admit step moves
\* every process whose I/O is complete into ready.
C18_Admit == []C18_Admitted /\ [][C18_Step]_vars

\* the admit step has just returned a process from completed I/O to ready
\* (with one tick of CPU left no interrupt could have returned it) while the
\* other process stays in I/O
C18_Witness ==
    /\ pc = "LoadProcess"
    /\ cur_cpu_burst = NULL
    /\ ~Priority_IsEmpty(waiting_queue)
    /\ \E p \in DOMAIN proc :
         /\ ReadyVisits(ready_queue, p) = 1
         /\ proc[p].io_burst_time = 0
         /\ workload[p].io_burst_time > 0
         /\ proc[p].cpu_burst_time = 1

---------------------------------------------------------------------------
(* The comparator test bench: the four comparators called on every pair of *)
(* a table of processes with distinct pids.                                *)

\* number of processes of the table
CmpProcs == 3

\* largest key of a process of the table
CmpKeys == 2

CmpProcess(pid, key) ==
    [pid |-> pid, cpu_burst_time |-> key + 1, io_burst_time |-> CmpKeys - key,
     arrival_time |-> key, priority |-> 0 - key, waiting_time |-> 0,
     turnaround_time |-> 0]

\* the int that the comparator named cmp returns on the processes a and b
CompareCall(cmp, a, b) ==
    CASE cmp = "SJF_Compare" -> SJF_Compare(a, b)
      [] cmp = "Priority_Compare" -> Priority_Compare(a, b)
      [] cmp = "IO_Burst_Compare" -> IO_Burst_Compare(a, b)
      [] cmp = "Simulator_ArrivalTime_Compare" ->
             Simulator_ArrivalTime_Compare(a, b)

CompareInit ==
    /\ SimIdle
    /\ BenchIdle
    /\ \E key \in [1 .. CmpProcs -> 0 .. CmpKeys] :
         proc = [pid \in 1 .. CmpProcs |-> CmpProcess(pid, key[pid])]

\* one call cmp(a, b): bench_op names the comparator, enq_log the operands
Bench_Compare ==
    /\ \E cmp \in Comparators, a, b \in DOMAIN proc :
         /\ bench_op' = cmp
         /\ enq_log' = <<a, b>>
         /\ bench_ret' = CompareCall(cmp, proc[a], proc[b])
    /\ UNCHANGED <<bench_queue, deq_log, simvars, proc>>

CompareNext == Bench_Compare

CompareSpec == CompareInit /\ [][CompareNext]_vars

\* the primary key that the comparator named cmp reads
PrimaryKey(cmp, process) ==
    CASE cmp = "SJF_Compare" -> process.cpu_burst_time
      [] cmp = "Priority_Compare" -> process.priority
      [] cmp = "IO_Burst_Compare" -> process.io_burst_time
      [] cmp = "Simulator_ArrivalTime_Compare" -> process.arrival_time

---------------------------------------------------------------------------
(* Terminated processes *)

C20_Step ==
    \A p \in DOMAIN proc :
      TreeVisits(terminated_processes.tree, p) = 1 =>
        /\ proc[p].cpu_burst_time = 0
        /\ proc'[p] = proc[p]
        /\ \/ TreeVisits(terminated_processes'.tree, p) = 1
           \/ pc' = "done"

\* C20: a process in the terminated pool has cpu_burst_time 0, no step
\* changes any of its fields, and it stays in the pool until the execute
\* step that runs the evaluation.
C20_TerminatedFrozen == [][C20_Step]_vars

\* a process terminated in an earlier tick; the aging and I/O steps of this
\* tick have run and the other process is still in I/O
C20_Witness ==
    /\ pc = "CPU_Burst"
    /\ ~Priority_IsEmpty(waiting_queue)
    /\ \E p \in Stored(terminated_processes) :
         proc[p].arrival_time + proc[p].turnaround_time < elapsed_time


\* ---------------------------------------------------------------------
\* Dispatch, preemption and aging within one iteration
\* ---------------------------------------------------------------------

\* the processes whose cpu_burst_time this step changes
Executed == {p \in DOMAIN proc : proc'[p].cpu_burst_time # proc[p].cpu_burst_time}

\* C21: under every policy and in every tick, a process whose
\* cpu_burst_time is decremented in the tick (it ran in that tick) did not
\* have its waiting_time incremented in that same tick: the dispatch and
\* preemption decision precedes aging.
C21_Step == \A p \in Executed : p \notin aged

C21_RunNotAged == [][C21_Step]_vars

\* the same statement restricted to the policies without preemption
C21_StepNoPreemption == (flag \notin PreemptivePolicies) => C21_Step

C21_RunNotAgedNoPreemption == [][C21_StepNoPreemption]_vars

\* ---------------------------------------------------------------------
\* Heap order under in-place mutation of the keys
\* ---------------------------------------------------------------------

\* the heaps of the simulator: the job pool, the waiting heap, the
\* terminated pool and, under the SJF and Priority policies, the ready heap
SimulatorHeaps ==
    {generated_processes, waiting_queue, terminated_processes}
      \cup (IF IsHeap(ready_queue) THEN {ready_queue} ELSE {})

\* C22: during a simulation, at every sub-step boundary each heap of the
\* simulator (ready heap, waiting heap, job pool, terminated pool) satisfies
\* the heap property under its comparator evaluated on the current field
\* values of the processes, although cpu_burst_time changes on the CPU and
\* io_burst_time is decremented in place in the waiting heap.
C22_HeapsOrdered ==
    (pc # "bench") => \A queue \in SimulatorHeaps : HeapOrdered(queue, proc)

\* right after the I/O of two waiting processes advanced in place, the
\* process of higher pid being at the top of the waiting heap
C22_Witness ==
    /\ pc = "Interrupt"
    /\ waiting_queue.count = 2
    /\ waiting_queue.tree[1] > waiting_queue.tree[2]
    /\ \A p \in Stored(waiting_queue) :
         proc[p].io_burst_time < workload[p].io_burst_time

\* ---------------------------------------------------------------------
\* What each step of an iteration changes in the process records
\* ---------------------------------------------------------------------

\* the process on which the execute step performs cpu_burst_time--: the one
\* in the CPU slot, or under a preemptive policy the top of the ready heap
\* that takes the slot at the start of the step
OnCpu(p) ==
    \/ p = cur_cpu_burst
    \/ /\ flag \in PreemptivePolicies
       /\ cur_cpu_burst # NULL
       /\ ready_queue.count > 0
       /\ p = ready_queue.tree[1]

C23_Step ==
    /\ \A p \in DOMAIN proc :
         /\ proc'[p].pid = proc[p].pid
         /\ proc'[p].arrival_time = proc[p].arrival_time
         /\ proc'[p].priority = proc[p].priority
         /\ proc'[p].cpu_burst_time # proc[p].cpu_burst_time =>
              /\ pc = "CPU_Burst"
              /\ OnCpu(p)
              /\ proc'[p].cpu_burst_time = proc[p].cpu_burst_time - 1
         /\ proc'[p].io_burst_time # proc[p].io_burst_time =>
              /\ pc = "Process_IO"
              /\ p \in Stored(waiting_queue)
              /\ proc'[p].io_burst_time = proc[p].io_burst_time - 1
    /\ Cardinality(Executed) <= 1
    /\ pc = "Process_IO" =>
         \A p \in Stored(waiting_queue) :
           proc'[p].io_burst_time = proc[p].io_burst_time - 1

\* C23: in every tick cpu_burst_time changes only at the execute step, only
\* for the process in the CPU slot and by exactly -1; io_burst_time
\* changes only at the advance-I/O step, for the processes in the waiting
\* heap and by exactly -1; pid, arrival_time and priority never change.
C23_FieldChanges == [][C23_Step]_vars

\* under a preemptive policy, a process that has used part of its CPU burst
\* is back in the ready heap while another has used part of its I/O burst
C23_Witness ==
    /\ flag \in PreemptivePolicies
    /\ \E p \in Stored(ready_queue) :
         proc[p].cpu_burst_time < workload[p].cpu_burst_time
    /\ \E p \in DOMAIN proc :
         proc[p].io_burst_time < workload[p].io_burst_time

\* ---------------------------------------------------------------------
\* Entering and leaving the waiting heap
\* ---------------------------------------------------------------------

C24_Step ==
    \A p \in Stored(waiting_queue') \ Stored(waiting_queue) :
      /\ pc = "CPU_Burst"
      /\ OnCpu(p)
      /\ cur_cpu_burst' = NULL
      /\ proc'[p].cpu_burst_time = proc[p].cpu_burst_time - 1
      /\ proc'[p].io_burst_time > 0
      /\ proc'[p].cpu_burst_time >= 1

C24_NoIoNeverWaits ==
    (pc # "bench") =>
      \A p \in Stored(waiting_queue) : workload[p].io_burst_time # 0

\* C24: a process enters the waiting heap only from the CPU slot, only in
\* a tick in which it executed, and only with io_burst_time > 0 and a
\* remaining cpu_burst_time >= 1; a process generated with
\* io_burst_time = 0 is never in the waiting heap, under any policy.
C24_EntersWaiting == []C24_NoIoNeverWaits /\ [][C24_Step]_vars

\* a process has just left the CPU for the waiting heap with its whole I/O
\* burst ahead, while a process generated without I/O exists
C24_Witness ==
    /\ pc = "LoadReadyQueue"
    /\ elapsed_time > 0
    /\ cur_cpu_burst = NULL
    /\ \E p \in Stored(waiting_queue) :
         /\ proc[p].io_burst_time = workload[p].io_burst_time
         /\ proc[p].cpu_burst_time < workload[p].cpu_burst_time
    /\ \E p \in DOMAIN proc : workload[p].io_burst_time = 0

C25_Step ==
    /\ pc = "Interrupt" =>
         \A p \in Stored(waiting_queue) :
           /\ (p \in Stored(waiting_queue')) # (ReadyVisits(ready_queue', p) = 1)
           /\ ReadyVisits(ready_queue', p) <= 1
           /\ proc[p].cpu_burst_time <= 1 => p \in Stored(waiting_queue')
    /\ \A p \in Stored(waiting_queue) \ Stored(waiting_queue') :
         /\ ReadyVisits(ready_queue', p) = 1
         /\ \/ pc = "Interrupt" /\ proc[p].cpu_burst_time > 1
            \/ pc = "LoadReadyQueue" /\ proc[p].io_burst_time = 0

\* C25: a process in the waiting heap with cpu_burst_time <= 1 is never
\* returned to ready by the random interrupt step, whatever the random trial
\* yields: it leaves waiting only through the admit step once its
\* io_burst_time is 0; and every process in waiting before the interrupt
\* step is afterwards either in ready or in the rebuilt waiting heap.
C25_InterruptKeepsLastTick == [][C25_Step]_vars

\* after the interrupt step a process with one CPU tick left is still in
\* the waiting heap while an interrupted process, its I/O unfinished, is
\* in ready
C25_Witness ==
    /\ pc = "CPU_Burst"
    /\ \E p \in Stored(waiting_queue) : proc[p].cpu_burst_time = 1
    /\ \E p \in DOMAIN proc :
         /\ ReadyVisits(ready_queue, p) = 1
         /\ proc[p].io_burst_time > 0
         /\ proc[p].io_burst_time < workload[p].io_burst_time

\* ---------------------------------------------------------------------
\* Accounting of the ticks
\* ---------------------------------------------------------------------

\* C26: under every policy, in every reachable state and for every process,
\* turnaround_time = waiting_time + (initial cpu_burst_time -
\* cpu_burst_time) + (initial io_burst_time - io_burst_time): every
\* turnaround tick is one ready tick, one CPU tick or one I/O tick.
C26_TurnaroundAccounting ==
    \A p \in DOMAIN workload :
      proc[p].turnaround_time =
        proc[p].waiting_time
          + (workload[p].cpu_burst_time - proc[p].cpu_burst_time)
          + (workload[p].io_burst_time - proc[p].io_burst_time)

\* a terminated process has spent ticks in ready, on the CPU and in I/O
C26_Witness ==
    /\ pc # "bench"
    /\ \E p \in Stored(terminated_processes) :
         /\ proc[p].waiting_time > 0
         /\ workload[p].cpu_burst_time > 1
         /\ workload[p].io_burst_time > 0
         /\ proc[p].io_burst_time = 0

\* in the execute step either the tick is idle or exactly one process runs,
\* and no other step counts an idle tick or runs a process
C27_Step ==
    IF pc = "CPU_Burst"
    THEN \/ /\ idle_time' = idle_time + 1
            /\ Executed = {}
         \/ /\ idle_time' = idle_time
            /\ \E p \in DOMAIN proc :
                 /\ Executed = {p}
                 /\ proc'[p].cpu_burst_time = proc[p].cpu_burst_time - 1
    ELSE idle_time' = idle_time /\ Executed = {}

C27_BusyTicks ==
    (pc = "done" /\ num_process >= 1) =>
      elapsed_time + 1 - idle_time =
        Sum([p \in DOMAIN workload |-> workload[p].cpu_burst_time],
            DOMAIN workload)

\* C27: for every policy and every workload of N >= 1 processes, in each
\* tick exactly one of two things happens at the execute step: idle_time is
\* incremented, or exactly one process's cpu_burst_time is decremented; hence
\* when the simulation stops elapsed_time + 1 - idle_time equals the sum of
\* the initial cpu_burst_time of all processes.
C27_IdleOrRun == []C27_BusyTicks /\ [][C27_Step]_vars

\* a finished run of two processes that had idle ticks
C27_Witness ==
    /\ pc = "done"
    /\ num_process = 2
    /\ idle_time > 0
    /\ elapsed_time + 1 - idle_time > 2

\* C28: for workloads with initial cpu_burst_time >= 1 the unsigned
\* counters never wrap below zero: every process in the waiting heap at the
\* advance-I/O step has io_burst_time >= 1 before it is decremented, and
\* every process in the CPU slot at the execute step has
\* cpu_burst_time >= 1 before it is decremented.
C28_NoWrap ==
    (pc # "bench") =>
      /\ pc = "Process_IO" =>
           \A p \in Stored(waiting_queue) : proc[p].io_burst_time >= 1
      /\ pc = "CPU_Burst" =>
           \A p \in DOMAIN proc : OnCpu(p) => proc[p].cpu_burst_time >= 1
      /\ \A p \in DOMAIN proc :
           /\ proc[p].cpu_burst_time <= workload[p].cpu_burst_time
           /\ proc[p].io_burst_time <= workload[p].io_burst_time

\* at the execute step the process in the CPU slot has one CPU tick left,
\* and so has a process in the waiting heap that has one I/O tick left
C28_Witness ==
    /\ pc = "CPU_Burst"
    /\ cur_cpu_burst # NULL
    /\ proc[cur_cpu_burst].cpu_burst_time = 1
    /\ \E p \in Stored(waiting_queue) :
         proc[p].io_burst_time = 1 /\ proc[p].cpu_burst_time = 1

\* C29: under every policy a process generated with cpu_burst_time >= 2
\* has io_burst_time = 0 when it reaches the terminated pool: once its
\* remaining cpu_burst_time is 1 with I/O outstanding it is in the waiting
\* heap until its io_burst_time is 0, so its whole I/O burst completes
\* before its last CPU tick.
C29_IoBeforeLastTick ==
    \A p \in DOMAIN workload :
      workload[p].cpu_burst_time >= 2 =>
        /\ proc[p].cpu_burst_time = 0 => proc[p].io_burst_time = 0
        /\ (proc[p].cpu_burst_time = 1 /\ proc[p].io_burst_time # 0) =>
             p \in Stored(waiting_queue)

\* a process generated with two CPU ticks and the longest I/O burst has
\* terminated
C29_Witness ==
    /\ pc # "bench"
    /\ \E p \in Stored(terminated_processes) :
         /\ workload[p].cpu_burst_time = 2
         /\ workload[p].io_burst_time = MaxIo
         /\ proc[p].io_burst_time = 0

\* ---------------------------------------------------------------------
\* The quantum counter of Round Robin
\* ---------------------------------------------------------------------

\* C30: under Round Robin, at the start of every tick the quantum counter
\* is in 0 .. TIME_QUANTUM - 1, and it is 0 whenever the CPU slot is empty:
\* termination, the move to waiting and the quantum expiry all reset it; and
\* the requeue at quantum expiry never runs with an empty CPU slot, so NULL
\* is never enqueued into ready.
C30_QuantumCounter ==
    flag = ROUND_ROBIN =>
      /\ time_quantum \in 0 .. TIME_QUANTUM - 1
      /\ cur_cpu_burst = NULL => time_quantum = 0
      /\ \A i \in 1 .. Len(ready_queue.list) : ready_queue.list[i] # NULL

\* a tick starts with the slot empty and the counter at 0 right after a
\* process used up its quantum and was requeued, the other process having
\* left the slot for the waiting heap earlier
C30_Witness ==
    /\ flag = ROUND_ROBIN
    /\ pc = "LoadReadyQueue"
    /\ cur_cpu_burst = NULL
    /\ time_quantum = 0
    /\ \E p \in DOMAIN proc :
         /\ ListVisits(ready_queue.list, p) = 1
         /\ workload[p].cpu_burst_time - proc[p].cpu_burst_time = TIME_QUANTUM
    /\ waiting_queue.count = 1

\* ---------------------------------------------------------------------
\* Termination of a process and of the simulation
\* ---------------------------------------------------------------------

\* the processes whose cpu_burst_time this step brings to 0
Finishing == {p \in DOMAIN proc : proc[p].cpu_burst_time # 0
                                    /\ proc'[p].cpu_burst_time = 0}

C31_TerminatedIffZero ==
    (pc \notin {"done", "bench"}) =>
      \A p \in DOMAIN proc :
        (proc[p].cpu_burst_time = 0) <=> (p \in Stored(terminated_processes))

C31_Step ==
    /\ \A p \in Stored(terminated_processes') \ Stored(terminated_processes) :
         pc = "CPU_Burst" /\ p \in Finishing
    /\ \A p \in Finishing :
         /\ pc = "CPU_Burst"
         /\ proc[p].cpu_burst_time = 1
         /\ p \in Stored(terminated_processes') \/ pc' = "done"
    /\ (pc' = "done" /\ pc # "done") <=>
         /\ Finishing # {}
         /\ terminated_processes.count = num_process - 1

\* C31: for workloads with initial cpu_burst_time >= 1, at every tick
\* boundary a process has cpu_burst_time = 0 if and only if it is in the
\* terminated pool; a process is moved to the terminated pool in exactly the
\* tick in which its cpu_burst_time is decremented to 0, and the simulation
\* stops in exactly the tick in which the terminated count first equals
\* num_process.
C31_Termination == []C31_TerminatedIffZero /\ [][C31_Step]_vars

\* a tick starts with one of two processes in the terminated pool and the
\* other still to run
C31_Witness ==
    /\ pc = "LoadReadyQueue"
    /\ num_process = 2
    /\ terminated_processes.count = 1
    /\ \E p \in DOMAIN proc : proc[p].cpu_burst_time > 0

\* ---------------------------------------------------------------------
\* Idle ticks
\* ---------------------------------------------------------------------

\* the dispatch step loads a process whenever the slot is empty and ready
\* is not, and otherwise leaves the slot alone
C32_Dispatch ==
    pc = "LoadProcess" =>
      IF cur_cpu_burst = NULL /\ ready_queue.count > 0
      THEN /\ cur_cpu_burst' # NULL
           /\ ReadyVisits(ready_queue, cur_cpu_burst') = 1
           /\ ReadyVisits(ready_queue', cur_cpu_burst') = 0
      ELSE cur_cpu_burst' = cur_cpu_burst

\* no idle tick is counted in a tick whose dispatch step found ready
\* non-empty: a process runs in its execute step
C32_NotIdle ==
    pc = "CPU_Burst" =>
      /\ idle_time' # idle_time => ~ready_at_dispatch
      /\ ready_at_dispatch => Executed # {} /\ idle_time' = idle_time

\* the process that the dispatch step of this tick loaded into the empty
\* slot is the one the execute step runs
C32_LoadedExecutes ==
    (pc = "CPU_Burst" /\ ready_at_dispatch /\ slot_at_dispatch = NULL) =>
      cur_cpu_burst # NULL /\ Executed = {cur_cpu_burst}

C32_Step == C32_Dispatch /\ C32_NotIdle /\ C32_LoadedExecutes

\* C32: for every policy, idle_time is incremented in a tick only if the
\* ready structure was empty at the dispatch step of that tick (after
\* admit): whenever ready is non-empty at dispatch and the CPU slot is
\* empty, a process is loaded and executes in that tick.
C32_IdleOnlyIfReadyEmpty == [][C32_Step]_vars

\* the part of the statement about idle_time: a tick whose dispatch step
\* found ready non-empty loads a process if the slot is empty and is not
\* counted as idle
C32_IdlePart == [][C32_Dispatch /\ C32_NotIdle]_vars

\* the whole statement under the policies without preemption
C32_NoPreemption ==
    [][flag \notin PreemptivePolicies => C32_Step]_vars

\* ---------------------------------------------------------------------
\* The summary table
\* ---------------------------------------------------------------------

\* two doubles that print the same
SameValue(a, b) ==
    /\ a.kind = b.kind
    /\ a.kind = "number" => a.num * b.den = b.num * a.den

\* C33: for every policy, the CPU utilization shown in the final comparison
\* table (Simulator_Terminate) is the same value as the CPU utilization
\* computed at evaluation (Simulator_Eval) for that simulator, namely
\* (elapsed_time + 1 - idle_time) / elapsed_time.
C33_SameUtilization ==
    pc = "done" =>
      /\ SameValue(Simulator_Terminate.CPU_Util, CPU_utilization)
      /\ SameValue(Simulator_Terminate.CPU_Util,
                   [kind |-> "number", num |-> elapsed_time + 1 - idle_time,
                    den |-> elapsed_time])

\* the value of Simulator_Eval is the one of the formula whenever the
\* simulation took more than one tick
C33_EvalUtilization ==
    (pc = "done" /\ elapsed_time > 0) =>
      SameValue(CPU_utilization,
                [kind |-> "number", num |-> elapsed_time + 1 - idle_time,
                 den |-> elapsed_time])

=============================================================================
